---- MODULE Spec2Model ----
(***************************************************************************)
(* A model of the A2A food-ordering sample: the service agent's task       *)
(* manager (signature check, blockchain confirmation check, task store,    *)
(* single-shot and streaming handlers), the order tools, and the host      *)
(* agent's delegation logic (send_task, confirm_task).                     *)
(*                                                                         *)
(* Strings are sequences of one-character strings, so that concatenation,  *)
(* lower-casing and hexadecimal parsing are computed rather than assumed.  *)
(* The external collaborators (the ECDSA library, the chain node, the LLM  *)
(* agent loop, the remote agent) are modelled by their interface: their    *)
(* answers are drawn nondeterministically from the outcomes they can give. *)
(***************************************************************************)
EXTENDS Integers, Sequences, FiniteSets, TLC

(***************************************************************************)
(* Bounds of the model.                                                    *)
(***************************************************************************)
\* longest session id string explored by the pure-function specifications
MaxSessLen == 2

(***************************************************************************)
(* Strings.                                                                *)
(***************************************************************************)
\* str.lower() on one character (task_manager.py:188)
LowerChar(c) ==
    CASE c = "A" -> "a"
      [] c = "B" -> "b"
      [] OTHER -> c

\* str.lower()
Lower(s) == [i \in DOMAIN s |-> LowerChar(s[i])]

\* the strings over alphabet A of length 0..n
StringsUpTo(A, n) == UNION {[1..k -> A] : k \in 0..n}

\* characters a session id may hold: hex digits, the uuid separator, and a
\* character that is not a hex digit
SessChars == {"1", "a", "-", "z"}

\* the session ids of the pure-function specifications (non-empty strings)
SessionStrings == StringsUpTo(SessChars, MaxSessLen) \ {<<>>}

(***************************************************************************)
(* Keys, addresses and signatures (eth_account).  A signature is the pair  *)
(* of the signing key and the signed plaintext; recovery returns the       *)
(* signer's checksummed address when the plaintext is the signed one, and  *)
(* an address unrelated to every claimed address otherwise.                *)
(***************************************************************************)
Keys == {"k1", "k2"}

\* Account.from_key(key).address: the checksummed (mixed-case) address
AddressOf(k) ==
    CASE k = "k1" -> <<"A", "b">>
      [] k = "k2" -> <<"b", "A">>

\* what recovery yields for a signature over another plaintext
StrayAddress == <<"z", "z">>

\* the zero address "0x0000000000000000000000000000000000000000"
ZeroAddress == <<"0", "0">>

NoSig == [kind |-> "none", k |-> "-", m |-> <<>>]
BadSig == [kind |-> "bad", k |-> "-", m |-> <<>>]

\* Account.sign_message(encode_defunct(text=m), private_key=k).signature
Sign(k, m) == [kind |-> "sig", k |-> k, m |-> m]

\* Account.recover_message(encode_defunct(text=m), signature=sig);
\* raised stands for the exception a malformed signature causes
Recover(m, sig) ==
    IF sig.kind # "sig" THEN [raised |-> TRUE, address |-> <<>>]
    ELSE IF sig.m = m THEN [raised |-> FALSE, address |-> AddressOf(sig.k)]
    ELSE [raised |-> FALSE, address |-> StrayAddress]

\* the addresses a request may claim: each key's address in its checksummed
\* and its lower-case spelling, and the empty (falsy) address
ClaimedAddresses ==
    UNION {{AddressOf(k), Lower(AddressOf(k))} : k \in Keys} \cup {<<>>}

(***************************************************************************)
(* Request parameters (TaskSendParams).  message.metadata is              *)
(* [present, auth, blockchain]; auth is [kind, address, signature] with    *)
(* kind "absent" (no 'auth' key), "null" ('auth': None) or "dict".         *)
(***************************************************************************)
NoAuth == [kind |-> "absent", address |-> <<>>, signature |-> NoSig]
NullAuth == [kind |-> "null", address |-> <<>>, signature |-> NoSig]
Auth(a, g) == [kind |-> "dict", address |-> a, signature |-> g]

\* the (is_valid, error_message) a validator returns; raised tells that an
\* exception left the validator instead
Result(ok, err) == [ok |-> ok, err |-> err, raised |-> FALSE]

\* the exception of the recovery leaves the validator
OnRecoverErrorRaise == [ok |-> FALSE, err |-> "", raised |-> TRUE]

\* task_manager.py:194-195: the exception of the recovery is caught
OnRecoverError == Result(FALSE, "Error recovering address from signature")

\* a comparison that is sensitive to letter case
AddressesMatchExactly(recovered, claimed) == recovered = claimed

\* recovered_address.lower() != address.lower()   (task_manager.py:188)
AddressesMatch(recovered, claimed) == Lower(recovered) = Lower(claimed)

\* a plaintext that leaves the address out
MessageWithoutAddress(address, sessionId) == sessionId

\* message_to_verify = f"{address}{session_id}"   (task_manager.py:180)
MessageToVerify(address, sessionId) == address \o sessionId

\* a check that also wants the request to carry no blockchain metadata
ValidateSignatureAlone(vs, sessionId, meta) ==
    IF ~vs THEN Result(TRUE, "")
    ELSE IF ~meta.present \/ meta.auth.kind # "dict"
              \/ meta.blockchain.kind # "absent"
        THEN Result(FALSE, "No authentication data found in message metadata")
    ELSE LET recovered == Recover(MessageToVerify(meta.auth.address, sessionId),
                                  meta.auth.signature)
         IN  IF recovered.raised
                    \/ ~AddressesMatch(recovered.address, meta.auth.address)
                 THEN Result(FALSE, "Signature verification failed")
             ELSE Result(TRUE, "")

\* AgentTaskManager._validate_signature (task_manager.py:144-199)
ValidateSignature(vs, sessionId, meta) ==
    IF ~vs THEN Result(TRUE, "")
    ELSE IF ~meta.present \/ meta.auth.kind = "absent"
        THEN Result(FALSE, "No authentication data found in message metadata")
    ELSE IF meta.auth.kind = "null"
        THEN Result(FALSE, "Error validating signature")
    ELSE IF meta.auth.address = <<>>
        THEN Result(FALSE, "Missing Ethereum address in auth data")
    ELSE IF meta.auth.signature.kind = "none"
        THEN Result(FALSE, "Missing signature in auth data")
    ELSE LET message_to_verify == MessageToVerify(meta.auth.address, sessionId)
             recovered == Recover(message_to_verify, meta.auth.signature)
         IN  IF recovered.raised THEN OnRecoverError
             ELSE IF ~AddressesMatch(recovered.address, meta.auth.address)
                THEN Result(FALSE, "Signature verification failed")
             ELSE Result(TRUE, "")

(***************************************************************************)
(* The on-chain task id of a session id:                                   *)
(*     int(session_id.replace('-', ''), 16) % (2**256)                     *)
(* The width is scaled to UuidBits so that the reduction takes place       *)
(* within the session ids the model explores.                              *)
(***************************************************************************)
\* width of the on-chain task id in the model (the source's is 256)
UuidBits == 6

UuidModulus == 2 ^ UuidBits

\* str.replace('-', '')
StripDashes(s) == SelectSeq(s, LAMBDA c : c # "-")

HexDigits == {"0", "1", "a", "A", "b", "B"}

HexVal(c) ==
    CASE c = "0" -> 0
      [] c = "1" -> 1
      [] c \in {"a", "A"} -> 10
      [] c \in {"b", "B"} -> 11

RECURSIVE HexToInt(_)
HexToInt(s) ==
    IF s = <<>> THEN 0
    ELSE 16 * HexToInt(SubSeq(s, 1, Len(s) - 1)) + HexVal(s[Len(s)])

\* int(text, 16): raises ValueError on the empty string and on a character
\* that is not a hex digit
ParseHex(s) ==
    IF s = <<>> \/ \E i \in DOMAIN s : s[i] \notin HexDigits
        THEN [raised |-> TRUE, value |-> 0]
        ELSE [raised |-> FALSE, value |-> HexToInt(s)]

\* task_uuid = int(session_id.replace('-', ''), 16) % (2**256)
TaskUuid(sessionId) ==
    LET parsed == ParseHex(StripDashes(sessionId))
    IN  [raised |-> parsed.raised, value |-> parsed.value % UuidModulus]

\* a derivation that leaves the dashes in
HostTaskUuidKeepDashes(sessionId) ==
    LET parsed == ParseHex(sessionId)
    IN  [raised |-> parsed.raised, value |-> parsed.value % UuidModulus]

\* the same derivation in HostAgent.confirm_task (host_agent.py:293)
HostTaskUuid(sessionId) ==
    LET parsed == ParseHex(StripDashes(sessionId))
    IN  [raised |-> parsed.raised, value |-> parsed.value % UuidModulus]

\* the same derivation in _complete_task_on_blockchain (agent.py:336)
CompleteTaskUuid(session_id) ==
    LET parsed == ParseHex(StripDashes(session_id))
    IN  [raised |-> parsed.raised, value |-> parsed.value % UuidModulus]

(***************************************************************************)
(* The chain node and the task contract, by their interface.               *)
(*   chainTasks : uuid -> [taskAgent, serviceAgent, isCompleted, payAmount]*)
(*   chainTxs   : tx hash -> [fn, uuid, sender, status]  (mined, with      *)
(*                a receipt of that status)                                *)
(* An RPC call may fail; the faults of one handler run are drawn as        *)
(*   [connected, tasksRaise, receiptRaise, absentAs]                       *)
(* where absentAs is what the client library does for a transaction that   *)
(* has no receipt: return None or raise TransactionNotFound.               *)
(***************************************************************************)
\* transaction hashes are 1, 2, ...; 0 stands for a missing or empty tx_hash
NoBlockchain == [kind |-> "absent", tx_hash |-> 0]
NullBlockchain == [kind |-> "null", tx_hash |-> 0]
Blockchain(h) == [kind |-> "dict", tx_hash |-> h]

Faults ==
    [connected : BOOLEAN, tasksRaise : BOOLEAN, receiptRaise : BOOLEAN,
     absentAs : {"none", "raise"}]

\* contract.functions.tasks(uuid).call(): the zero record for an unknown id
TasksCall(ct, uuid) ==
    IF uuid \in DOMAIN ct THEN ct[uuid]
    ELSE [taskAgent |-> ZeroAddress, serviceAgent |-> ZeroAddress,
          isCompleted |-> FALSE, payAmount |-> 0]

\* w3.eth.get_transaction_receipt(tx_hash): "raise", "none" or the status
GetTransactionReceipt(cx, h, f) ==
    IF f.receiptRaise THEN "raise"
    ELSE IF h \notin DOMAIN cx THEN f.absentAs
    ELSE IF cx[h].status = 1 THEN "success"
    ELSE "failed"

BcResult(ok, err, addr, rpc) ==
    [ok |-> ok, err |-> err, agent_address |-> addr, rpc |-> rpc]

\* a lookup error that rejects the request
OnLookupErrorReject(addr, rpc) ==
    BcResult(FALSE, "Blockchain validation failed", addr, rpc)

\* except Exception: ... return True, "... but proceeding"
\* (task_manager.py:291-293)
OnLookupError(addr, rpc) ==
    BcResult(TRUE, "Blockchain validation failed but proceeding", addr, rpc)

\* if not w3.is_connected(): return False, ...   (task_manager.py:235-236)
OnNotConnected(cached) ==
    BcResult(FALSE, "Unable to connect to blockchain network", cached,
             <<"connect">>)

\* a receipt check that accepts every receipt
ReceiptVerdictAny(tx_receipt, addr) ==
    BcResult(TRUE, "", addr, <<"connect", "tasks", "receipt">>)

\* the checks on the fetched receipt (task_manager.py:285-297)
ReceiptVerdict(tx_receipt, addr) ==
    IF tx_receipt = "none"
        THEN BcResult(FALSE, "Unable to get transaction receipt",
                      addr, <<"connect", "tasks", "receipt">>)
    ELSE IF tx_receipt # "success"
        THEN BcResult(FALSE, "Transaction execution failed",
                      addr, <<"connect", "tasks", "receipt">>)
    ELSE BcResult(TRUE, "", addr, <<"connect", "tasks", "receipt">>)

\* only a request without metadata counts as carrying no blockchain data
NoBlockchainDataWithoutMeta(meta) == ~meta.present

\* task_manager.py:216-218: the message or its metadata is absent or empty,
\* or the metadata has no 'blockchain' key
NoBlockchainData(meta) == ~meta.present \/ meta.blockchain.kind = "absent"

\* AgentTaskManager._validate_blockchain_confirmation
\* (task_manager.py:201-300).  vb: self.verify_blockchain, cached:
\* self.agent_address, env: AGENT_ETH_ADDRESS, ct/cx: the chain, f: the
\* faults of this run.  The result carries the new self.agent_address and
\* the RPC calls made.
ValidateBlockchain(vb, sessionId, meta, cached, env, ct, cx, f) ==
    IF ~vb THEN BcResult(TRUE, "", cached, <<>>)
    ELSE IF NoBlockchainData(meta)
        THEN BcResult(TRUE, "No blockchain confirmation data, skipping validation",
                      cached, <<>>)
    ELSE IF meta.blockchain.kind = "null"
        THEN BcResult(FALSE, "Blockchain confirmation validation failed",
                      cached, <<>>)
    ELSE IF meta.blockchain.tx_hash = 0
        THEN BcResult(FALSE, "Missing blockchain transaction hash", cached, <<>>)
    ELSE LET task_uuid == TaskUuid(sessionId) IN
    IF task_uuid.raised
        THEN BcResult(FALSE, "Blockchain confirmation validation failed",
                      cached, <<>>)
    ELSE IF ~f.connected THEN OnNotConnected(cached)
    ELSE LET addr == IF cached = <<>> THEN env ELSE cached IN
    IF addr = <<>>
        THEN BcResult(TRUE, "Blockchain validation skipped due to missing agent address",
                      addr, <<"connect">>)
    ELSE IF f.tasksRaise THEN OnLookupError(addr, <<"connect", "tasks">>)
    ELSE LET service_agent_address == TasksCall(ct, task_uuid.value).serviceAgent IN
    IF service_agent_address = <<>> \/ service_agent_address = ZeroAddress
        THEN BcResult(TRUE, "Blockchain task not found, but allowing task to proceed",
                      addr, <<"connect", "tasks">>)
    ELSE IF Lower(service_agent_address) # Lower(addr)
        THEN BcResult(FALSE, "Task service agent address mismatch",
                      addr, <<"connect", "tasks">>)
    ELSE LET tx_receipt == GetTransactionReceipt(cx, meta.blockchain.tx_hash, f) IN
    IF tx_receipt = "raise"
        THEN OnLookupError(addr, <<"connect", "tasks", "receipt">>)
    ELSE ReceiptVerdict(tx_receipt, addr)

(***************************************************************************)
(* State.                                                                  *)
(***************************************************************************)
VARIABLES
    verify_signatures,   \* AgentTaskManager.verify_signatures
    verify_blockchain,   \* AgentTaskManager.verify_blockchain
    agent_address,       \* AgentTaskManager.agent_address (<<>>: None)
    env_agent_address,   \* the AGENT_ETH_ADDRESS environment variable
    chainTasks,          \* the contract's tasks mapping
    chainTxs,            \* the mined transactions, by hash
    tasks,               \* InMemoryTaskManager.tasks: task id -> Task
    lock,                \* InMemoryTaskManager.lock: "free" or its holder
    req,                 \* the requests served: each handler run's position,
                         \* the steps it took and the responses it gave
    current_session_id,  \* the agent's _current_session_id (<<>>: None)
    order_ids,           \* agent.py's order_ids: the ids create_order_form gave
    agent_private_key,   \* the service agent's key from the environment
    state,               \* the host's tool_context.state
    private_key,         \* HostAgent.private_key
    eth_address,         \* HostAgent.eth_address (<<>>: None)
    lastCall             \* the operation run last: its arguments and result

cfgVars == <<verify_signatures, verify_blockchain, agent_address,
             env_agent_address>>
chainVars == <<chainTasks, chainTxs>>
storeVars == <<tasks, lock>>
svcVars == <<req, current_session_id>>
orderVars == <<order_ids, agent_private_key>>
hostVars == <<state, private_key, eth_address>>
vars == <<cfgVars, chainVars, storeVars, svcVars, orderVars, hostVars, lastCall>>

\* a host session before its first model call: no key is set
NewState ==
    [keys |-> {}, session_id |-> <<>>, session_active |-> FALSE,
     agent |-> "-", task_id |-> "-"]

\* the parts of the system a specification leaves out
NoOrders == order_ids = {} /\ agent_private_key = "none"
NoHost == state = NewState /\ private_key = "none" /\ eth_address = <<>>

\* the service agent's own address, and its configuration spellings
ServiceAddress == AddressOf("k2")
HostAddress == AddressOf("k1")

EmptyMap == <<>>

ChainTask(ta, sa) ==
    [taskAgent |-> ta, serviceAgent |-> sa, isCompleted |-> FALSE,
     payAmount |-> 1]

ChainTx(fn, uuid, status) == [fn |-> fn, uuid |-> uuid, status |-> status]

Meta(a, b) == [present |-> TRUE, auth |-> a, blockchain |-> b]
NoMeta == [present |-> FALSE, auth |-> NoAuth, blockchain |-> NoBlockchain]

(***************************************************************************)
(* SpecSig: _validate_signature as a function of its inputs.  Init draws   *)
(* the flag, the session id and the message metadata; the one action       *)
(* applies the function.                                                   *)
(***************************************************************************)
SigSessions == StringsUpTo({"1", "-"}, MaxSessLen) \ {<<>>}

Signatures ==
    {NoSig, BadSig}
        \cup {Sign(k, a \o s) : k \in Keys, a \in ClaimedAddresses \ {<<>>},
                                s \in SigSessions}

SigMetas ==
    {NoMeta, Meta(NoAuth, NoBlockchain), Meta(NullAuth, NoBlockchain)}
        \cup {Meta(Auth(a, g), NoBlockchain) :
                a \in ClaimedAddresses, g \in Signatures}

InitCommon ==
    /\ agent_address = <<>>
    /\ env_agent_address = <<>>
    /\ chainTasks = EmptyMap
    /\ chainTxs = EmptyMap
    /\ tasks = EmptyMap
    /\ lock = "free"
    /\ req = <<>>
    /\ current_session_id = <<>>
    /\ NoOrders
    /\ NoHost

InitSig ==
    /\ InitCommon
    /\ verify_signatures \in BOOLEAN
    /\ verify_blockchain = TRUE
    /\ lastCall \in [op : {"validate_signature"}, done : {FALSE},
                     sessionId : SigSessions, meta : SigMetas,
                     result : {Result(FALSE, "")}]

\* a call of _validate_signature(task_send_params)
CallValidateSignature ==
    /\ lastCall.op = "validate_signature"
    /\ ~lastCall.done
    /\ lastCall' = [lastCall EXCEPT
            !.done = TRUE,
            !.result = ValidateSignature(verify_signatures, lastCall.sessionId,
                                         lastCall.meta)]
    /\ UNCHANGED <<orderVars, hostVars,
                   cfgVars, chainVars, storeVars, svcVars>>

NextSig == CallValidateSignature

SpecSig == InitSig /\ [][NextSig]_vars

(***************************************************************************)
(* Claims about _validate_signature, under SpecSig.                        *)
(***************************************************************************)
SigCalled == lastCall.op = "validate_signature" /\ lastCall.done

\* the triple a request with an auth dictionary carries
SigTriple ==
    <<lastCall.meta.auth.address, lastCall.sessionId,
      lastCall.meta.auth.signature>>

\* the signature g was made by the key of address a over a followed by s
ValidTriple(a, s, g) ==
    /\ a # <<>>
    /\ \E k \in Keys : Lower(AddressOf(k)) = Lower(a) /\ g = Sign(k, a \o s)

\* t differs from a valid triple in exactly one of its three components
SingleMutation(t) ==
    \E a \in ClaimedAddresses, s \in SigSessions, g \in Signatures :
        /\ ValidTriple(a, s, g)
        /\ Cardinality({i \in 1..3 : t[i] # <<a, s, g>>[i]}) = 1

SigTripleClaim ==
    /\ ValidTriple(SigTriple[1], SigTriple[2], SigTriple[3])
          => lastCall.result.ok
    /\ SingleMutation(SigTriple) => ~lastCall.result.ok
    /\ lastCall.result.ok =>
          LET r == Recover(SigTriple[1] \o SigTriple[2], SigTriple[3])
          IN  ~r.raised /\ Lower(r.address) = Lower(SigTriple[1])

\* C4 as stated: for every triple, _validate_signature succeeds when the
\* signature was made by the address's key over address followed by session
\* id, and fails when exactly one of the three was changed.
C4_AsStated ==
    SigCalled /\ lastCall.meta.present /\ lastCall.meta.auth.kind = "dict"
        => SigTripleClaim

\* C4, amended: with signature verification enabled, _validate_signature
\* succeeds for every valid triple, fails for every triple that differs from
\* a valid one in exactly one component, and succeeds only if the recovered
\* address equals the claimed one ignoring letter case.
C4_Enabled ==
    SigCalled /\ verify_signatures /\ lastCall.meta.present
              /\ lastCall.meta.auth.kind = "dict"
        => SigTripleClaim

\* a valid triple whose claimed address is spelled in lower case was accepted
C4_Witness ==
    /\ SigCalled /\ verify_signatures
    /\ lastCall.meta.auth.kind = "dict"
    /\ ValidTriple(SigTriple[1], SigTriple[2], SigTriple[3])
    /\ SigTriple[1] # AddressOf("k1") /\ Lower(SigTriple[1]) = Lower(AddressOf("k1"))
    /\ lastCall.result.ok


(***************************************************************************)
(* SpecChain: _validate_blockchain_confirmation as a function of the       *)
(* request, the configuration, the chain and the faults of the run.        *)
(***************************************************************************)
ChainMetas ==
    {NoMeta, Meta(NoAuth, NoBlockchain), Meta(NoAuth, NullBlockchain),
     Meta(NoAuth, Blockchain(0)), Meta(NoAuth, Blockchain(1))}

InitChain ==
    /\ tasks = EmptyMap
    /\ lock = "free"
    /\ req = <<>>
    /\ current_session_id = <<>>
    /\ NoOrders
    /\ NoHost
    /\ verify_signatures = TRUE
    /\ verify_blockchain \in BOOLEAN
    /\ \E c \in {<<<<>>, <<>>>>, <<<<>>, Lower(ServiceAddress)>>,
                 <<ServiceAddress, <<>>>>} :
          /\ agent_address = c[1]
          /\ env_agent_address = c[2]
    /\ chainTasks \in
          {EmptyMap} \cup
          {1 :> ChainTask(HostAddress, sa) :
              sa \in {ZeroAddress, ServiceAddress, HostAddress}}
    /\ chainTxs \in
          {EmptyMap} \cup {1 :> ChainTx("confirmTask", 1, st) : st \in {0, 1}}
                     \cup {1 :> ChainTx("completeTask", 1, 1),
                           1 :> ChainTx("confirmTask", 1 + 1, 1)}
    /\ lastCall \in [op : {"validate_blockchain"}, done : {FALSE},
                     sessionId : SessionStrings, meta : ChainMetas,
                     faults : Faults,
                     result : {BcResult(FALSE, "", <<>>, <<>>)}]

\* a call of _validate_blockchain_confirmation(task_send_params)
CallValidateBlockchain ==
    /\ lastCall.op = "validate_blockchain"
    /\ ~lastCall.done
    /\ LET r == ValidateBlockchain(verify_blockchain, lastCall.sessionId,
                    lastCall.meta, agent_address, env_agent_address,
                    chainTasks, chainTxs, lastCall.faults)
       IN  /\ lastCall' = [lastCall EXCEPT !.done = TRUE, !.result = r]
           /\ agent_address' = r.agent_address
    /\ UNCHANGED <<orderVars, hostVars,
                   verify_signatures, verify_blockchain, env_agent_address,
                   chainVars, storeVars, svcVars>>

NextChain == CallValidateBlockchain

SpecChain == InitChain /\ [][NextChain]_vars

(***************************************************************************)
(* Claims about _validate_blockchain_confirmation, under SpecChain.        *)
(***************************************************************************)
BcCalled == lastCall.op = "validate_blockchain" /\ lastCall.done

\* the request carries blockchain metadata and verification is enabled
BcChecked ==
    /\ BcCalled
    /\ verify_blockchain
    /\ lastCall.meta.present
    /\ lastCall.meta.blockchain.kind # "absent"

\* the request names a transaction and its session id yields a task id
BcNamesTx ==
    /\ BcChecked
    /\ lastCall.meta.blockchain.kind = "dict"
    /\ lastCall.meta.blockchain.tx_hash # 0
    /\ ~TaskUuid(lastCall.sessionId).raised

\* the agent address is configured (agent_address holds it after the call)
BcAddressSet == lastCall.result.agent_address # <<>>

\* the on-chain record of the task id derived from the session id
BcRecord == TasksCall(chainTasks, TaskUuid(lastCall.sessionId).value)

BcRecordAbsent == BcRecord.serviceAgent = ZeroAddress

BcRecordMatches ==
    /\ ~BcRecordAbsent
    /\ Lower(BcRecord.serviceAgent) = Lower(lastCall.result.agent_address)

\* what the receipt fetch of this run gives
BcReceipt ==
    GetTransactionReceipt(chainTxs, lastCall.meta.blockchain.tx_hash,
                          lastCall.faults)

BcReceiptAbsent == lastCall.meta.blockchain.tx_hash \notin DOMAIN chainTxs

\* C6 as stated: with blockchain metadata, verification enabled, the agent
\* address configured and the chain reachable, the request is accepted only
\* if the on-chain service agent equals the configured address (ignoring
\* case) and the receipt has success status; a missing tx hash, a mismatch,
\* an absent receipt and a non-success status each reject.
C6_AsStated ==
    BcChecked /\ lastCall.faults.connected
              /\ (agent_address # <<>> \/ env_agent_address # <<>>)
        => /\ lastCall.result.ok =>
                /\ BcNamesTx
                /\ BcRecordMatches
                /\ lastCall.meta.blockchain.tx_hash \in DOMAIN chainTxs
                /\ chainTxs[lastCall.meta.blockchain.tx_hash].status = 1
           /\ lastCall.meta.blockchain.tx_hash = 0 => ~lastCall.result.ok
           /\ BcNamesTx /\ ~BcRecordMatches => ~lastCall.result.ok
           /\ BcNamesTx /\ BcReceiptAbsent => ~lastCall.result.ok
           /\ BcNamesTx /\ ~BcReceiptAbsent
                /\ chainTxs[lastCall.meta.blockchain.tx_hash].status # 1
                => ~lastCall.result.ok

\* C6, amended: under the same conditions the request is accepted only if
\* the tasks(uuid) read raised, or the on-chain record is absent (zero
\* service agent), or the service agent matches and the receipt fetch either
\* raised or returned a success status; a missing tx hash rejects; a present
\* record with another service agent rejects; with a matching record, a
\* receipt fetch that returns nothing or a non-success status rejects.
C6_Amended ==
    BcChecked /\ lastCall.faults.connected
              /\ (agent_address # <<>> \/ env_agent_address # <<>>)
        => /\ lastCall.result.ok =>
                /\ BcNamesTx
                /\ \/ lastCall.faults.tasksRaise
                   \/ BcRecordAbsent
                   \/ BcRecordMatches /\ BcReceipt \in {"raise", "success"}
           /\ lastCall.meta.blockchain.tx_hash = 0 => ~lastCall.result.ok
           /\ BcNamesTx /\ ~lastCall.faults.tasksRaise
                /\ ~BcRecordAbsent /\ ~BcRecordMatches
                => ~lastCall.result.ok
           /\ BcNamesTx /\ ~lastCall.faults.tasksRaise /\ BcRecordMatches
                /\ BcReceipt \in {"none", "failed"}
                => ~lastCall.result.ok

\* a request was accepted after the whole check: matching record, receipt
\* with success status
C6_Witness ==
    /\ BcNamesTx /\ lastCall.faults.connected
    /\ ~lastCall.faults.tasksRaise
    /\ BcRecordMatches
    /\ BcReceipt = "success"
    /\ lastCall.result.ok
    /\ lastCall.result.rpc = <<"connect", "tasks", "receipt">>

\* C7 as stated: when the chain endpoint cannot be reached while a request
\* carrying blockchain metadata is validated, validation succeeds.
C7_AsStated ==
    BcNamesTx /\ ~lastCall.faults.connected => lastCall.result.ok

\* C8: a tasks(uuid) read that raises, a receipt fetch that raises, and an
\* absent on-chain record (zero service agent) each end the validation with
\* success.
C8_LookupFailureProceeds ==
    BcNamesTx /\ lastCall.faults.connected /\ BcAddressSet
        => /\ lastCall.faults.tasksRaise => lastCall.result.ok
           /\ ~lastCall.faults.tasksRaise /\ BcRecordAbsent
                => lastCall.result.ok
           /\ ~lastCall.faults.tasksRaise /\ BcRecordMatches
                /\ BcReceipt = "raise"
                => lastCall.result.ok

\* the receipt fetch raised for a request whose on-chain record matches, and
\* the request was accepted
C8_Witness ==
    /\ BcNamesTx /\ lastCall.faults.connected /\ BcAddressSet
    /\ ~lastCall.faults.tasksRaise /\ BcRecordMatches
    /\ BcReceipt = "raise"
    /\ lastCall.result.rpc = <<"connect", "tasks", "receipt">>
    /\ lastCall.result.ok

(***************************************************************************)
(* The task store.  A Task is [sessionId, state, artifacts]; a status is   *)
(* its TaskState; an artifact is the kind of its part.                     *)
(***************************************************************************)
\* most artifacts a task holds in the explored runs
MaxArtifacts == 2

TaskStates ==
    {"submitted", "working", "input-required", "completed", "canceled",
     "failed", "unknown"}

TaskIds == {"t1", "t2", "t3"}

ArtifactKinds == {"text", "data"}

\* InMemoryTaskManager.upsert_task: create the task on the first request
\* for its id, fetch it afterwards
UpsertTask(ts, id, sessionId) ==
    IF id \in DOMAIN ts THEN ts
    ELSE (id :> [sessionId |-> sessionId, state |-> "submitted",
                 artifacts |-> <<>>]) @@ ts

\* an update that puts its artifacts in the place of the earlier ones
UpdateStoreReplacing(ts, task_id, status, artifacts) ==
    IF task_id \notin DOMAIN ts THEN [raised |-> TRUE, tasks |-> ts]
    ELSE [raised |-> FALSE,
          tasks |-> [ts EXCEPT ![task_id].state = status,
                               ![task_id].artifacts = artifacts]]

\* an update that creates the missing task instead of raising
UpdateStoreCreating(ts, task_id, status, artifacts) ==
    [raised |-> FALSE,
     tasks |-> (task_id :> [sessionId |-> <<>>, state |-> status,
                            artifacts |-> artifacts]) @@ ts]

\* an update that refuses to leave completed, canceled or failed
UpdateStoreValidated(ts, task_id, status, artifacts) ==
    IF task_id \notin DOMAIN ts THEN [raised |-> TRUE, tasks |-> ts]
    ELSE IF ts[task_id].state \in {"completed", "canceled", "failed"}
        THEN [raised |-> TRUE, tasks |-> ts]
    ELSE [raised |-> FALSE,
          tasks |-> [ts EXCEPT ![task_id].state = status,
                               ![task_id].artifacts = @ \o artifacts]]

\* AgentTaskManager._update_store (task_manager.py:459-475), run under
\* self.lock: raises ValueError for an unknown id, else overwrites the status
\* and extends the artifacts
UpdateStore(ts, task_id, status, artifacts) ==
    IF task_id \notin DOMAIN ts THEN [raised |-> TRUE, tasks |-> ts]
    ELSE [raised |-> FALSE,
          tasks |-> [ts EXCEPT ![task_id].state = status,
                               ![task_id].artifacts = @ \o artifacts]]

(***************************************************************************)
(* SpecStore: the store's two operations called in any order.              *)
(***************************************************************************)
StoreSessions == {<<"1">>}

InitStore ==
    /\ InitCommon
    /\ verify_signatures = TRUE
    /\ verify_blockchain = TRUE
    /\ lastCall = [op |-> "none"]

\* a call of upsert_task(task_send_params)
CallUpsertTask ==
    \E id \in TaskIds \ {"t3"}, sid \in StoreSessions :
        /\ tasks' = UpsertTask(tasks, id, sid)
        /\ lastCall' = [op |-> "upsert_task", id |-> id, raised |-> FALSE]
        /\ UNCHANGED <<orderVars, hostVars, lock,
                       cfgVars, chainVars, svcVars>>

\* a call of _update_store(task_id, status, artifacts)
CallUpdateStore ==
    \E id \in TaskIds, st \in TaskStates,
       arts \in {<<>>} \cup {<<k>> : k \in ArtifactKinds} :
        /\ id \in DOMAIN tasks => Len(tasks[id].artifacts) + Len(arts) <= MaxArtifacts
        /\ LET r == UpdateStore(tasks, id, st, arts)
           IN  /\ tasks' = r.tasks
               /\ lastCall' = [op |-> "update_store", id |-> id,
                               raised |-> r.raised]
        /\ UNCHANGED <<orderVars, hostVars, lock,
                       cfgVars, chainVars, svcVars>>

NextStore == CallUpsertTask \/ CallUpdateStore

SpecStore == InitStore /\ [][NextStore]_vars

(***************************************************************************)
(* Claims about the store, under SpecStore.                                *)
(***************************************************************************)
\* C5: a call of _update_store for a task id that was never inserted raises
\* the not-found error, whatever the status and artifacts, and leaves every
\* task of the store as it was.  (No operation removes a task, so the ids
\* never inserted are the ids outside the store.)
C5_UnknownIdNotFound ==
    [][lastCall'.op = "update_store" /\ lastCall'.id \notin DOMAIN tasks
          => lastCall'.raised /\ tasks' = tasks]_vars

\* an update of an id never inserted has raised, on a store that holds tasks
C5_Witness ==
    /\ lastCall.op = "update_store"
    /\ lastCall.id \notin DOMAIN tasks
    /\ DOMAIN tasks # {}
    /\ lastCall.raised

(***************************************************************************)
(* The request handlers.  A handler run is a record of req:                *)
(*   kind      "send" (on_send_task) or "subscribe" (on_send_task_subscribe)*)
(*   pc        where the run stands: "idle" (no request yet), "loop"       *)
(*             (waiting for the agent loop's                               *)
(*             next item), "emit_artifact", "emit_final" (suspended at a   *)
(*             yield), "done"                                              *)
(*   id, sessionId   of the request                                        *)
(*   steps     the calls the handler made, in order, each with its verdict *)
(*   out       the responses given to the caller, in order                 *)
(*   agent     what the agent loop did last                                *)
(*   n         the working items processed                                 *)
(* on_send_task runs without suspending (agent.invoke is a blocking call); *)
(* on_send_task_subscribe suspends while it waits for the agent loop and   *)
(* at each yield.                                                          *)
(***************************************************************************)
\* the connections requests arrive on, one request each, named in the order
\* the server accepts them
Connections == {"c1", "c2"}
Accepted(r, rq) == r = "c1" \/ rq["c1"].pc # "idle"
\* working items an agent loop yields before it completes, raises or ends
MaxItems == 1

Step(name, ok) == [name |-> name, ok |-> ok]

StatusEvent(s, final) == [type |-> "status", state |-> s, final |-> final]
ArtifactEvent == [type |-> "artifact", state |-> "-", final |-> FALSE]
ErrorResponse == [type |-> "error", state |-> "-", final |-> FALSE]
TaskResponse(s) == [type |-> "result", state |-> s, final |-> FALSE]
\* the handler raised to the server instead of returning a response
Raised == [type |-> "raised", state |-> "-", final |-> FALSE]

\* the checks with the signature check left out
HandlerChecksNoSignature(p, f, vs, vb, cached, env, ct, cx) ==
    LET bc == ValidateBlockchain(vb, p.sessionId, p.meta, cached, env, ct, cx, f)
    IN  [pass |-> bc.ok,
         steps |-> <<Step("validate_request", TRUE),
                     Step("validate_blockchain", bc.ok)>>,
         addr |-> bc.agent_address]

\* the checks both handlers start with (task_manager.py:395-415, 423-446):
\* _validate_request, then _validate_signature, then
\* _validate_blockchain_confirmation, each ending the handler when it fails
HandlerChecks(p, f, vs, vb, cached, env, ct, cx) ==
    IF ~p.modesOK
        THEN [pass |-> FALSE, steps |-> <<Step("validate_request", FALSE)>>,
              addr |-> cached]
    ELSE LET sig == ValidateSignature(vs, p.sessionId, p.meta) IN
    IF ~sig.ok
        THEN [pass |-> FALSE,
              steps |-> <<Step("validate_request", TRUE),
                          Step("validate_signature", FALSE)>>,
              addr |-> cached]
    ELSE LET bc == ValidateBlockchain(vb, p.sessionId, p.meta, cached, env,
                                      ct, cx, f) IN
         [pass |-> bc.ok,
          steps |-> <<Step("validate_request", TRUE),
                      Step("validate_signature", TRUE),
                      Step("validate_blockchain", bc.ok)>>,
          addr |-> bc.agent_address]

SvcSessions == {<<"1">>, <<"a">>}

\* the auth entries of the explored requests: none, the host's signature
\* over its address and the session id, and another key's signature
SvcAuths(sid) ==
    {NoAuth, Auth(HostAddress, Sign("k1", HostAddress \o sid)),
     Auth(HostAddress, Sign("k2", HostAddress \o sid))}

SvcParams ==
    UNION {[id : {"t1", "t2"}, sessionId : {sid},
            meta : {NoMeta} \cup
                   {Meta(a, b) : a \in SvcAuths(sid),
                                 b \in {NoBlockchain, Blockchain(0), Blockchain(1)}},
            modesOK : BOOLEAN, textPart : BOOLEAN] : sid \in SvcSessions}

NewRun(kind, p) ==
    [kind |-> kind, pc |-> "done", id |-> p.id, sessionId |-> p.sessionId,
     steps |-> <<>>, out |-> <<>>, agent |-> "none", n |-> 0]

IdleRun ==
    [kind |-> "none", pc |-> "idle", id |-> "-", sessionId |-> <<>>,
     steps |-> <<>>, out |-> <<>>, agent |-> "none", n |-> 0]

\* the chain faults a handler run is explored under: the node reachable or
\* not
SvcFaults ==
    {f \in Faults : ~f.tasksRaise /\ ~f.receiptRaise /\ f.absentAs = "none"}

\* what the single-shot agent loop (agent.invoke) can give: an exception, a
\* text, a text holding 'MISSING_INFO:'
InvokeOutcomes == {"raise", "text", "missing_info"}

\* a failure of the agent loop recorded in the task as state failed
OnAgentErrorFailed(ts, task_id) ==
    IF task_id \in DOMAIN ts THEN [ts EXCEPT ![task_id].state = "failed"]
    ELSE ts

\* the store after the agent loop raised: the except branches log and raise
\* (task_manager.py:482-484) or yield an error response (370-377) and write
\* nothing to the task
OnAgentError(ts, task_id) == ts

\* AgentTaskManager.on_send_task and _invoke (task_manager.py:394-418,
\* 477-498)
OnSendTask(r) ==
    /\ req[r].pc = "idle"
    /\ Accepted(r, req)
    /\ \E p \in SvcParams, f \in SvcFaults, outcome \in InvokeOutcomes :
        LET c == HandlerChecks(p, f, verify_signatures, verify_blockchain,
                               agent_address, env_agent_address,
                               chainTasks, chainTxs)
            run == NewRun("send", p)
            upserted == UpsertTask(tasks, p.id, p.sessionId)
            task_state == IF outcome = "missing_info" THEN "input-required"
                          ELSE "completed"
            upd == UpdateStore(upserted, p.id, task_state, <<"text">>)
        IN  /\ agent_address' = c.addr
            /\ IF ~c.pass
                  THEN /\ req' = [req EXCEPT ![r] = [run EXCEPT !.steps = c.steps,
                                                         !.out = <<ErrorResponse>>]]
                       /\ UNCHANGED <<tasks, current_session_id>>
               ELSE IF ~p.textPart
                  THEN /\ req' = [req EXCEPT ![r] = [run EXCEPT
                              !.steps = c.steps \o <<Step("upsert_task", TRUE),
                                                     Step("get_user_query", FALSE)>>,
                              !.out = <<Raised>>]]
                       /\ tasks' = upserted
                       /\ UNCHANGED current_session_id
               ELSE IF outcome = "raise"
                  THEN /\ req' = [req EXCEPT ![r] = [run EXCEPT
                              !.steps = c.steps \o <<Step("upsert_task", TRUE),
                                                     Step("get_user_query", TRUE),
                                                     Step("agent", FALSE)>>,
                              !.agent = "raise",
                              !.out = <<Raised>>]]
                       /\ tasks' = OnAgentError(upserted, p.id)
                       /\ current_session_id' = p.sessionId
               ELSE /\ req' = [req EXCEPT ![r] = [run EXCEPT
                              !.steps = c.steps \o <<Step("upsert_task", TRUE),
                                                     Step("get_user_query", TRUE),
                                                     Step("agent", TRUE),
                                                     Step("update_store", ~upd.raised)>>,
                              !.agent = outcome,
                              !.out = <<IF upd.raised THEN Raised
                                        ELSE TaskResponse(task_state)>>]]
                    /\ tasks' = upd.tasks
                    /\ current_session_id' = p.sessionId
    /\ UNCHANGED <<orderVars, hostVars, lock,
                   verify_signatures, verify_blockchain, env_agent_address,
                   chainVars, lastCall>>

\* AgentTaskManager.on_send_task_subscribe up to its first suspension
\* (task_manager.py:420-451, 305-310, 75-97): the checks, upsert_task, the
\* start of _stream_generator and of agent.stream
OnSendTaskSubscribe(r) ==
    /\ req[r].pc = "idle"
    /\ Accepted(r, req)
    /\ \E p \in SvcParams, f \in SvcFaults :
        LET c == HandlerChecks(p, f, verify_signatures, verify_blockchain,
                               agent_address, env_agent_address,
                               chainTasks, chainTxs)
            run == NewRun("subscribe", p)
        IN  /\ agent_address' = c.addr
            /\ IF ~c.pass
                  THEN /\ req' = [req EXCEPT ![r] = [run EXCEPT !.steps = c.steps,
                                                         !.out = <<ErrorResponse>>]]
                       /\ UNCHANGED <<tasks, current_session_id>>
               ELSE IF ~p.textPart
                  THEN /\ req' = [req EXCEPT ![r] = [run EXCEPT
                              !.steps = c.steps \o <<Step("upsert_task", TRUE),
                                                     Step("get_user_query", FALSE)>>,
                              !.out = <<ErrorResponse>>]]
                       /\ tasks' = UpsertTask(tasks, p.id, p.sessionId)
                       /\ UNCHANGED current_session_id
               ELSE /\ req' = [req EXCEPT ![r] = [run EXCEPT
                              !.steps = c.steps \o <<Step("upsert_task", TRUE),
                                                     Step("get_user_query", TRUE),
                                                     Step("agent", TRUE)>>,
                              !.pc = "loop"]]
                    /\ tasks' = UpsertTask(tasks, p.id, p.sessionId)
                    /\ current_session_id' = p.sessionId
    /\ UNCHANGED <<orderVars, hostVars, lock,
                   verify_signatures, verify_blockchain, env_agent_address,
                   chainVars, lastCall>>

\* the items agent.stream yields: a progress update, or the final response
\* as a text, as a form (a dict whose response.result is JSON), as a dict
\* whose response.result is not JSON, or as another dict
StreamItems == {"working", "text", "form", "badjson", "data"}

\* every item taken as a completed one
ItemStateCompleted(item) == "completed"

\* task_state of an item (task_manager.py:311-333)
ItemState(item) ==
    CASE item = "working" -> "working"
      [] item = "form" -> "input-required"
      [] OTHER -> "completed"

\* artifacts of an item: None for a progress update
ItemArtifacts(item) ==
    CASE item = "working" -> <<>>
      [] item = "text" -> <<"text">>
      [] OTHER -> <<"data">>

\* one round of _stream_generator's loop up to its first yield
\* (task_manager.py:308-347, 370-377): the agent loop yields an item, the
\* store is updated, the status event is yielded
StreamItem(r) ==
    /\ req[r].pc = "loop"
    /\ \E item \in StreamItems :
        /\ item = "working" => req[r].n < MaxItems
        /\ LET upd == UpdateStore(tasks, req[r].id, ItemState(item),
                                  ItemArtifacts(item))
           IN  IF item = "badjson" \/ upd.raised
                  THEN /\ req' = [req EXCEPT
                              ![r].pc = "done",
                              ![r].agent = item,
                              ![r].steps = Append(@,
                                  IF item = "badjson" THEN Step("json_loads", FALSE)
                                  ELSE Step("update_store", FALSE)),
                              ![r].out = Append(@, ErrorResponse)]
                       /\ UNCHANGED tasks
                  ELSE /\ req' = [req EXCEPT
                              ![r].pc = IF item = "working" THEN "loop"
                                        ELSE "emit_artifact",
                              ![r].agent = item,
                              ![r].n = IF item = "working" THEN @ + 1 ELSE @,
                              ![r].steps = Append(@, Step("update_store", TRUE)),
                              ![r].out = Append(@, StatusEvent(ItemState(item), FALSE))]
                       /\ tasks' = upd.tasks
    /\ UNCHANGED <<orderVars, hostVars, lock,
                   cfgVars, chainVars, current_session_id, lastCall>>

\* the generator resumes and yields the artifact (task_manager.py:349-357)
EmitArtifact(r) ==
    /\ req[r].pc = "emit_artifact"
    /\ req' = [req EXCEPT ![r].pc = "emit_final",
                          ![r].out = Append(@, ArtifactEvent)]
    /\ UNCHANGED <<orderVars, hostVars,
                   cfgVars, chainVars, storeVars, current_session_id, lastCall>>

\* a completing item that is not followed by the final event
EmitFinalDropped(r) ==
    /\ req[r].pc = "emit_final"
    /\ req' = [req EXCEPT ![r].pc = "done"]
    /\ UNCHANGED <<orderVars, hostVars,
                   cfgVars, chainVars, storeVars, current_session_id, lastCall>>

\* the generator resumes, yields the final status event and leaves the loop
\* (task_manager.py:358-369)
EmitFinal(r) ==
    /\ req[r].pc = "emit_final"
    /\ req' = [req EXCEPT ![r].pc = "done",
                          ![r].out = Append(@, StatusEvent(ItemState(req[r].agent), TRUE))]
    /\ UNCHANGED <<orderVars, hostVars,
                   cfgVars, chainVars, storeVars, current_session_id, lastCall>>

\* the agent loop raises while the generator waits for its next item
\* (task_manager.py:370-377)
StreamRaise(r) ==
    /\ req[r].pc = "loop"
    /\ req' = [req EXCEPT ![r].pc = "done", ![r].agent = "raise",
                          ![r].out = Append(@, ErrorResponse)]
    /\ tasks' = OnAgentError(tasks, req[r].id)
    /\ UNCHANGED <<orderVars, hostVars, lock,
                   cfgVars, chainVars, current_session_id, lastCall>>

\* the agent loop ends without a final response: the async for ends
StreamEnd(r) ==
    /\ req[r].pc = "loop"
    /\ req' = [req EXCEPT ![r].pc = "done", ![r].agent = "end"]
    /\ UNCHANGED <<orderVars, hostVars,
                   cfgVars, chainVars, storeVars, current_session_id, lastCall>>

InitService ==
    /\ verify_signatures \in BOOLEAN
    /\ verify_blockchain \in BOOLEAN
    /\ agent_address = <<>>
    /\ env_agent_address = Lower(ServiceAddress)
    /\ chainTasks = (1 :> ChainTask(HostAddress, ServiceAddress))
    /\ chainTxs = (1 :> ChainTx("confirmTask", 1, 1))
    /\ tasks = EmptyMap
    /\ lock = "free"
    /\ req = [r \in Connections |-> IdleRun]
    /\ current_session_id = <<>>
    /\ NoOrders
    /\ NoHost
    /\ lastCall = [op |-> "none"]

NextService ==
    \E r \in Connections :
          \/ OnSendTask(r)
          \/ OnSendTaskSubscribe(r)
          \/ StreamItem(r)
          \/ EmitArtifact(r)
          \/ EmitFinal(r)
          \/ StreamRaise(r)
          \/ StreamEnd(r)

SpecService == InitService /\ [][NextService]_vars

(***************************************************************************)
(* Claims about the request handlers.                                      *)
(***************************************************************************)
Streams == {r \in Connections : req[r].kind = "subscribe"}
Finals(r) == {i \in DOMAIN req[r].out : req[r].out[i].final}
\* the agent loop delivered a final response and the manager stored it
Completed(r) ==
    /\ req[r].agent \in {"text", "form", "data"}
    /\ req[r].steps[Len(req[r].steps)] = Step("update_store", TRUE)

\* C1 as stated: every finished stream carries exactly one final=true event,
\* and that event is its last one, whatever the agent loop did.
C1_AsStated ==
    \A r \in Streams :
        req[r].pc = "done" =>
            /\ Cardinality(Finals(r)) = 1
            /\ Finals(r) = {Len(req[r].out)}

\* C1 amended: a stream never carries more than one final=true event, and
\* nothing follows that event; a finished stream carries it exactly when the
\* agent loop delivered a final response that the manager parsed and stored.
\* Every other finished stream (a failed check, a request without text, the
\* loop raising, a result that is not JSON) ends with an error response and
\* no final=true event, and a loop that ends without a final response ends
\* the stream with no closing event at all.
C1_Amended ==
    \A r \in Streams :
        /\ Cardinality(Finals(r)) <= 1
        /\ Finals(r) # {} => Finals(r) = {Len(req[r].out)} /\ req[r].pc = "done"
        /\ req[r].pc = "done" =>
              /\ Finals(r) # {} <=> Completed(r)
              /\ ~Completed(r) /\ req[r].agent # "end"
                    => req[r].out[Len(req[r].out)] = ErrorResponse
              /\ req[r].agent = "end"
                    => \A i \in DOMAIN req[r].out :
                          req[r].out[i] = StatusEvent("working", FALSE)

\* a stream that went through a progress update and a final response, next
\* to a stream whose loop raised after a progress update
C1_Witness ==
    \E r, q \in Streams :
        /\ req[r].pc = "done" /\ Completed(r) /\ Len(req[r].out) = 4
        /\ req[r].out[4].final
        /\ req[q].pc = "done" /\ req[q].agent = "raise" /\ Len(req[q].out) = 2

HasStep(r, name) == \E i \in DOMAIN req[r].steps : req[r].steps[i].name = name
CheckFailed(run) ==
    \E i \in DOMAIN run.steps :
        /\ run.steps[i].name \in {"validate_signature", "validate_blockchain"}
        /\ ~run.steps[i].ok
\* the signature check and then the blockchain check passed before step i
ChecksPassedBefore(r, i) ==
    \E j, k \in 1..(i - 1) :
        /\ j < k
        /\ req[r].steps[j] = Step("validate_signature", TRUE)
        /\ req[r].steps[k] = Step("validate_blockchain", TRUE)

C3_Order ==
    \A r \in Connections :
        /\ \A i \in DOMAIN req[r].steps :
              req[r].steps[i].name \in {"upsert_task", "agent"}
                  => ChecksPassedBefore(r, i)
        /\ CheckFailed(req[r]) =>
              /\ req[r].out = <<ErrorResponse>>
              /\ req[r].pc = "done"
              /\ ~HasStep(r, "upsert_task") /\ ~HasStep(r, "agent")

C3_StoreUnchanged ==
    \A r \in Connections :
        req[r].pc = "idle" /\ CheckFailed(req'[r])
            => tasks' = tasks /\ current_session_id' = current_session_id

\* C3: in both handlers the task is upserted and the agent loop is invoked
\* only after the signature check and then the blockchain check passed; a
\* request failing either check gets one error response, and handling it
\* leaves the task store as it was and never reaches the agent loop.
C3_ChecksBeforeUpsert == []C3_Order /\ [][C3_StoreUnchanged]_vars

\* one request refused by the signature check while the store holds the task
\* of another request that reached the agent loop
C3_Witness ==
    \E r, q \in Connections :
        /\ req[r].steps = <<Step("validate_request", TRUE),
                            Step("validate_signature", FALSE)>>
        /\ HasStep(q, "agent") /\ req[q].id \in DOMAIN tasks
        /\ req[r].id \notin DOMAIN tasks

(***************************************************************************)
(* The order tools of the service agent (agent.py).  The agent loop calls  *)
(* them; place_order reports the completion on the chain through           *)
(* _complete_task_on_blockchain, which reads the session id the agent kept *)
(* from its last invoke or stream call.                                    *)
(***************************************************************************)
\* transactions the chain holds at most
MaxTxs == 1

\* the ids random.randint can give, and one id no form was made for
FormIds == {"order_1", "order_2"}
OrderIdArgs == FormIds \cup {"order_x"}

\* how a transaction can fail: while it is built (gas price, nonce), sent,
\* or while its receipt is awaited; and the status its receipt carries
TxFaults ==
    [connected : BOOLEAN, tx : {"none", "build", "send", "wait"},
     status : {1}]
        \cup [connected : {TRUE}, tx : {"none"}, status : {0}]

NewTxHash(cx) == Cardinality(DOMAIN cx) + 1

\* the chain after send_raw_transaction accepted a call of fn(uuid)
Broadcast(cx, fn, uuid, status) ==
    [h \in DOMAIN cx \cup {NewTxHash(cx)} |->
        IF h \in DOMAIN cx THEN cx[h] ELSE ChainTx(fn, uuid, status)]

Completion(kind, h, cx) == [kind |-> kind, transaction_hash |-> h, chainTxs |-> cx]

\* _complete_task_on_blockchain (agent.py:313-405): None without a session
\* id or a private key, the transaction's details when it was mined, and
\* every exception raised again
CompleteTaskOnBlockchain(session_id, key, cx, f) ==
    IF session_id = <<>> THEN Completion("none", 0, cx)
    ELSE LET uuid == CompleteTaskUuid(session_id) IN
    IF uuid.raised THEN Completion("raise", 0, cx)
    ELSE IF key = "none" THEN Completion("none", 0, cx)
    ELSE IF ~f.connected THEN Completion("raise", 0, cx)
    ELSE IF key = "bad" \/ f.tx \in {"build", "send"}
        THEN Completion("raise", 0, cx)
    ELSE IF f.tx = "wait"
        THEN Completion("raise", 0, Broadcast(cx, "completeTask", uuid.value, f.status))
    ELSE Completion("dict", NewTxHash(cx),
                    Broadcast(cx, "completeTask", uuid.value, f.status))

OrderResponse(raised, status, completion, tracking) ==
    [raised |-> raised, status |-> status, blockchain_completion |-> completion,
     tracking_url |-> tracking]

\* agent.py:306-310: the tracking url reads blockchain_result
\* ['transaction_hash'], which raises when the step returned None
\* (TypeError) or raised (the name is unbound)
TrackingUrl(completion) ==
    IF completion.kind = "dict"
        THEN OrderResponse(FALSE, "confirmed", "completed",
                           completion.transaction_hash)
    ELSE OrderResponse(TRUE, "-", "-", 0)

\* create_order_form (agent.py:110-152)
CreateOrderForm ==
    /\ \E order_id \in FormIds :
        /\ order_ids' = order_ids \cup {order_id}
        /\ lastCall' = [op |-> "create_order_form", order_id |-> order_id,
                        known |-> order_id \in order_ids,
                        completion |-> "-",
                        result |-> OrderResponse(FALSE, "form", "-", 0)]
    /\ UNCHANGED <<cfgVars, chainVars, storeVars, svcVars, agent_private_key,
                   hostVars>>

\* place_order (agent.py:265-310)
PlaceOrder ==
    /\ Cardinality(DOMAIN chainTxs) < MaxTxs
    /\ \E order_id \in OrderIdArgs, f \in TxFaults :
        IF order_id \notin order_ids
            THEN /\ lastCall' = [op |-> "place_order", order_id |-> order_id,
                                 known |-> FALSE, completion |-> "-",
                                 result |-> OrderResponse(FALSE,
                                     "Error: Invalid order_id.", "-", 0)]
                 /\ UNCHANGED chainTxs
            ELSE LET c == CompleteTaskOnBlockchain(current_session_id,
                              agent_private_key, chainTxs, f)
                 IN  /\ lastCall' = [op |-> "place_order", order_id |-> order_id,
                                     known |-> TRUE, completion |-> c.kind,
                                     result |-> TrackingUrl(c)]
                     /\ chainTxs' = c.chainTxs
    /\ UNCHANGED <<cfgVars, chainTasks, storeVars, svcVars, orderVars, hostVars>>

\* AgentWithTaskManager.invoke and stream keep the session id of the request
\* being served (task_manager.py:44-47, 75-78)
OrderSessions == {<<"1">>, <<"a">>, <<"z">>}

KeepSessionId ==
    /\ \E sid \in OrderSessions : current_session_id' = sid
    /\ lastCall' = [op |-> "invoke", order_id |-> "-", known |-> FALSE,
                    completion |-> "-",
                    result |-> OrderResponse(FALSE, "-", "-", 0)]
    /\ UNCHANGED <<cfgVars, chainVars, storeVars, req, orderVars, hostVars>>

InitOrders ==
    /\ verify_signatures = TRUE
    /\ verify_blockchain = TRUE
    /\ agent_address = <<>>
    /\ env_agent_address = <<>>
    /\ chainTasks = EmptyMap
    /\ chainTxs = EmptyMap
    /\ tasks = EmptyMap
    /\ lock = "free"
    /\ req = <<>>
    /\ current_session_id = <<>>
    /\ order_ids = {}
    /\ agent_private_key \in {"none", "k2", "bad"}
    /\ NoHost
    /\ lastCall = [op |-> "none", order_id |-> "-", known |-> FALSE,
                   completion |-> "-",
                   result |-> OrderResponse(FALSE, "-", "-", 0)]

NextOrders ==
    \/ CreateOrderForm
    \/ PlaceOrder
    \/ KeepSessionId

SpecOrders == InitOrders /\ [][NextOrders]_vars

Placed == lastCall.op = "place_order"

\* C2 as stated: place_order(id) returns status 'confirmed' exactly when id
\* came from create_order_form, an id that did not gets the 'Invalid
\* order_id' result, and an issued id is placed whatever the on-chain
\* completeTask step did.
C2_AsStated ==
    Placed =>
        /\ lastCall.known <=> lastCall.order_id \in order_ids
        /\ lastCall.known
              <=> ~lastCall.result.raised /\ lastCall.result.status = "confirmed"
        /\ ~lastCall.known
              => lastCall.result.status = "Error: Invalid order_id."

(***************************************************************************)
(* The host agent (host_agent.py).  state is the tool_context.state of the *)
(* host's session: keys holds the keys that are set.  The remote agent's   *)
(* answer to a forwarded request is an input of the call: the task it      *)
(* returns, or an exception of the client.                                 *)
(***************************************************************************)
HostKeys == {"none", "k1", "bad"}
\* Account.from_key(private_key).address (host_agent.py:51-57)
EthAddress(key) == IF key \in Keys THEN AddressOf(key) ELSE <<>>

RemoteAgents == {"food"}
Messages == {"m1", "m2"}
\* the (agent_name, message) arguments of the explored tool calls: the
\* registered agent, and a name no agent is registered under
ToolArgs == (RemoteAgents \X Messages) \cup {<<"ghost", "m1">>}
\* session ids uuid.uuid4() can give
HostSessions == {<<"1">>, <<"a", "-", "1">>}

\* the remote agent's answer: the client raising, or a task with its status
Replies ==
    [raised : {FALSE}, state : TaskStates, message : {TRUE}, artifacts : {1}]
        \cup [raised : {FALSE}, state : {"completed"}, message : {FALSE},
              artifacts : {0}]
        \cup [raised : {TRUE}, state : {"unknown"}, message : {FALSE},
              artifacts : {0}]

NoRequest ==
    [sent |-> FALSE, id |-> "-", sessionId |-> <<>>, agent |-> "-",
     text |-> "-", meta |-> NoMeta]
Request(id, sid, agent, text, meta) ==
    [sent |-> TRUE, id |-> id, sessionId |-> sid, agent |-> agent,
     text |-> text, meta |-> meta]

Part(kind) == [kind |-> kind, transaction_hash |-> 0, task_uuid |-> 0]
\* a confirmation entry that leaves the transaction hash out
BlockchainConfirmationNoHash(h, uuid) ==
    [kind |-> "blockchain_confirmation", transaction_hash |-> 0,
     task_uuid |-> uuid]

BlockchainConfirmation(h, uuid) ==
    [kind |-> "blockchain_confirmation", transaction_hash |-> h,
     task_uuid |-> uuid]

\* what a tool call did: raised or returned response, the state it left,
\* the request it forwarded, the chain it left, whether it set escalate,
\* and its calls of the chain node and of the remote agent, in order
Effect(raised, response, st, request, cx, escalate) ==
    [raised |-> raised, response |-> response, state |-> st,
     request |-> request, chainTxs |-> cx, escalate |-> escalate,
     steps |-> IF request.sent THEN <<Step("client.send_task", TRUE)>> ELSE <<>>]

\* the effect of a call that made the chain calls pre before the rest
After(pre, e) == [e EXCEPT !.steps = pre \o @]

\* confirm_task's transaction calls (host_agent.py:320-326)
Sent == Step("send_raw_transaction", TRUE)
Waited(ok) == Step("wait_for_transaction_receipt", ok)
Raise(st, request, cx) == Effect(TRUE, <<>>, st, request, cx, FALSE)

\* a signature over the message made with another agent's key
SignMessageOtherKey(key, message) ==
    IF key \in Keys THEN Sign("k2", message) ELSE NoSig

\* sign_message (host_agent.py:209-227): None without a usable key
SignMessage(key, message) == IF key \in Keys THEN Sign(key, message) ELSE NoSig

\* the terminal states with unknown left out
TerminalKnown == {"completed", "canceled", "failed"}

\* the states that end the host's session with the remote agent
Terminal == {"completed", "canceled", "failed", "unknown"}

\* only a cancelled task raises
RaisingCanceled == {"canceled"}

\* the states of the returned task that make the tool raise
\* (host_agent.py:393-397, 503-508)
Raising == {"canceled", "failed"}

RECURSIVE Parts(_)
Parts(n) == IF n = 0 THEN <<>> ELSE Append(Parts(n - 1), Part("artifact"))

\* the common tail of send_task and confirm_task once the request is built
\* (host_agent.py:380-407, 486-518): forward it, set session_active, raise
\* on a cancelled or failed task, collect the parts
Forward(st, request, cx, reply, extra) ==
    IF reply.raised THEN Raise(st, request, cx)
    ELSE LET st2 == [st EXCEPT !.keys = @ \cup {"session_active"},
                               !.session_active = reply.state \notin Terminal]
         IN  IF reply.state \in Raising
                 THEN Raise(st2, request, cx)
             ELSE Effect(FALSE,
                         (IF reply.message THEN <<Part("message")>> ELSE <<>>)
                             \o Parts(reply.artifacts) \o extra,
                         st2, request, cx, reply.state = "input-required")

TaskId(st) == IF "task_id" \in st.keys THEN st.task_id ELSE "fresh"

\* send_task (host_agent.py:422-519)
SendTaskEffect(st, key, addr, cx, agent_name, message, reply) ==
    IF agent_name \notin RemoteAgents THEN Raise(st, NoRequest, cx)
    ELSE LET st1 == [st EXCEPT !.keys = @ \cup {"agent"}, !.agent = agent_name] IN
    IF "session_id" \notin st.keys THEN Raise(st1, NoRequest, cx)
    ELSE LET sessionId == st.session_id
             signature == IF key # "none" /\ addr # <<>>
                              THEN SignMessage(key, addr \o sessionId)
                          ELSE NoSig
             auth == IF signature # NoSig /\ addr # <<>>
                         THEN Auth(addr, signature) ELSE NoAuth
             request == Request(TaskId(st), sessionId, agent_name, message,
                                Meta(auth, NoBlockchain))
         IN  Forward(st1, request, cx, reply, <<>>)

\* the faults of confirm_task's chain calls: the node unreachable (or the
\* provider raising), and the transaction failing while it is built,
\* signed, sent or awaited
HostFaults ==
    [connect : {"ok"}, tx : {"none", "build", "sign", "send", "wait"},
     status : {1}]
        \cup [connect : {"down"}, tx : {"none"}, status : {1}]

\* a failed fallback: confirm_task gives up
OnConnectionErrorAbort(st, key, addr, cx, agent_name, message, reply) ==
    Raise(st, NoRequest, cx)

\* host_agent.py:278-283: the connection error is caught and confirm_task
\* returns send_task's result
OnConnectionError(st, key, addr, cx, agent_name, message, reply) ==
    SendTaskEffect(st, key, addr, cx, agent_name, message, reply)

OnTransactionErrorAbort(st, key, addr, cx, agent_name, message, reply) ==
    Raise(st, NoRequest, cx)

\* host_agent.py:329-333: the transaction error is caught and confirm_task
\* returns send_task's result
OnTransactionError(st, key, addr, cx, agent_name, message, reply) ==
    SendTaskEffect(st, key, addr, cx, agent_name, message, reply)

\* a missing private key treated like a chain that cannot be reached
OnNoPrivateKeyFallback(st, key, addr, cx, agent_name, message, reply) ==
    SendTaskEffect(st, key, addr, cx, agent_name, message, reply)

\* host_agent.py:295-297: without a private key confirm_task raises
\* ValueError, outside every try block
OnNoPrivateKey(st, key, addr, cx, agent_name, message, reply) ==
    Raise(st, NoRequest, cx)

\* confirm_task (host_agent.py:229-420)
ConfirmTaskEffect(st, key, addr, cx, agent_name, message, reply, f) ==
    IF agent_name \notin RemoteAgents THEN Raise(st, NoRequest, cx)
    ELSE LET st1 == [st EXCEPT !.keys = @ \cup {"agent"}, !.agent = agent_name] IN
    IF "session_id" \notin st.keys THEN Raise(st1, NoRequest, cx)
    ELSE LET sessionId == st.session_id IN
    IF f.connect # "ok"
        THEN OnConnectionError(st1, key, addr, cx, agent_name, message, reply)
    ELSE LET uuid == HostTaskUuid(sessionId) IN
    IF uuid.raised THEN Raise(st1, NoRequest, cx)
    ELSE IF key = "none"
        THEN OnNoPrivateKey(st1, key, addr, cx, agent_name, message, reply)
    ELSE IF key = "bad" \/ f.tx \in {"build", "sign", "send"}
        THEN OnTransactionError(st1, key, addr, cx, agent_name, message, reply)
    ELSE LET cx1 == Broadcast(cx, "confirmTask", uuid.value, f.status) IN
    IF f.tx = "wait"
        THEN After(<<Sent, Waited(FALSE)>>,
                   OnTransactionError(st1, key, addr, cx1, agent_name, message,
                                      reply))
    ELSE LET h == NewTxHash(cx)
             signature == IF addr # <<>>
                              THEN SignMessage(key, addr \o sessionId)
                          ELSE NoSig
             auth == IF signature # NoSig THEN Auth(addr, signature) ELSE NoAuth
             request == Request(TaskId(st), sessionId, agent_name, message,
                                Meta(auth, Blockchain(h)))
         IN  After(<<Sent, Waited(TRUE)>>,
                   Forward(st1, request, cx1, reply,
                           <<BlockchainConfirmation(h, uuid.value)>>))

Call(op, agent_name, message, reply, f, e) ==
    [op |-> op, agent_name |-> agent_name, message |-> message,
     reply |-> reply, fault |-> f, raised |-> e.raised,
     response |-> e.response, request |-> e.request, escalate |-> e.escalate,
     steps |-> e.steps]

NoFault == [connect |-> "ok", tx |-> "none", status |-> 1]
NoReply == [raised |-> TRUE, state |-> "unknown", message |-> FALSE, artifacts |-> 0]
NoCall == Call("none", "-", "-", NoReply, NoFault, Raise(NewState, NoRequest, EmptyMap))

\* before_model_callback (host_agent.py:167-174)
BeforeModelCallback ==
    /\ "session_active" \notin state.keys \/ ~state.session_active
    /\ \E sid \in HostSessions :
        state' = [state EXCEPT
                     !.keys = @ \cup {"session_id", "session_active"},
                     !.session_id = IF "session_id" \in state.keys THEN @ ELSE sid,
                     !.session_active = TRUE]
    /\ lastCall' = NoCall
    /\ UNCHANGED <<cfgVars, chainVars, storeVars, svcVars, orderVars,
                   private_key, eth_address>>

SendTask ==
    /\ \E args \in ToolArgs, reply \in Replies :
        LET agent_name == args[1]
            message == args[2]
            e == SendTaskEffect(state, private_key, eth_address, chainTxs,
                                agent_name, message, reply)
        IN  /\ state' = e.state
            /\ lastCall' = Call("send_task", agent_name, message, reply, NoFault, e)
    /\ UNCHANGED <<cfgVars, chainVars, storeVars, svcVars, orderVars,
                   private_key, eth_address>>

ConfirmTask ==
    /\ Cardinality(DOMAIN chainTxs) < MaxTxs
    /\ \E args \in ToolArgs, reply \in Replies, f \in HostFaults :
        LET agent_name == args[1]
            message == args[2]
            e == ConfirmTaskEffect(state, private_key, eth_address, chainTxs,
                                   agent_name, message, reply, f)
        IN  /\ state' = e.state
            /\ chainTxs' = e.chainTxs
            /\ lastCall' = Call("confirm_task", agent_name, message, reply, f, e)
    /\ UNCHANGED <<cfgVars, chainTasks, storeVars, svcVars, orderVars,
                   private_key, eth_address>>

InitHost ==
    /\ verify_signatures = TRUE
    /\ verify_blockchain = TRUE
    /\ agent_address = <<>>
    /\ env_agent_address = <<>>
    /\ chainTasks = EmptyMap
    /\ chainTxs = EmptyMap
    /\ tasks = EmptyMap
    /\ lock = "free"
    /\ req = <<>>
    /\ current_session_id = <<>>
    /\ NoOrders
    /\ private_key \in HostKeys
    /\ eth_address = EthAddress(private_key)
    /\ state = NewState
    /\ lastCall = NoCall

NextHost ==
    \/ BeforeModelCallback
    \/ SendTask
    \/ ConfirmTask

SpecHost == InitHost /\ [][NextHost]_vars

(***************************************************************************)
(* Claims about the host agent.                                            *)
(***************************************************************************)
\* what send_task does from the state the call started in, for the call's
\* arguments and the remote agent's answer
SameAsSendTask(call) ==
    LET e == SendTaskEffect(state, private_key, eth_address, chainTxs,
                            call.agent_name, call.message, call.reply)
    IN  /\ call.raised = e.raised
        /\ call.response = e.response
        /\ call.request = e.request
        /\ call.escalate = e.escalate
        /\ state' = e.state

NoBlockchainFields(call) ==
    /\ call.request.meta.blockchain = NoBlockchain
    /\ \A i \in DOMAIN call.response :
          call.response[i].kind # "blockchain_confirmation"

\* C9: a confirm_task call that finds no chain endpoint reachable returns
\* what send_task returns for the same arguments, state and remote answer;
\* the forwarded request has no 'blockchain' metadata, the response has no
\* blockchain_confirmation entry, and no transaction reaches the chain.
C9_UnreachableFallsBack ==
    [][lastCall'.op = "confirm_task" /\ lastCall'.fault.connect # "ok"
          => /\ SameAsSendTask(lastCall')
             /\ NoBlockchainFields(lastCall')
             /\ chainTxs' = chainTxs]_vars

\* a confirm_task call with the chain unreachable that forwarded a signed
\* request and returned the remote agent's message and artifact
C9_Witness ==
    /\ lastCall.op = "confirm_task" /\ lastCall.fault.connect = "down"
    /\ lastCall.request.sent /\ lastCall.request.meta.auth.kind = "dict"
    /\ ~lastCall.raised /\ Len(lastCall.response) = 2
    /\ chainTxs = EmptyMap

\* the on-chain confirm step of a call failed: the connection, or, with a
\* key configured, the account, the build, the signing, the sending or the
\* wait for the receipt
ConfirmStepFailed(call, key) ==
    \/ call.fault.connect # "ok"
    \/ key # "none" /\ (key = "bad" \/ call.fault.tx # "none")

\* C10: when the on-chain confirm step of a confirm_task call fails (the
\* connection, building, signing or sending the transaction, waiting for
\* its receipt), the call forwards the plain send_task request for the same
\* agent, message and session and ends as send_task ends.
C10_StepFailureFallsBack ==
    [][(/\ lastCall'.op = "confirm_task"
        /\ lastCall'.agent_name \in RemoteAgents
        /\ "session_id" \in state.keys
        /\ ConfirmStepFailed(lastCall', private_key))
          => /\ SameAsSendTask(lastCall')
             /\ lastCall'.request.sent
             /\ lastCall'.request.agent = lastCall'.agent_name
             /\ lastCall'.request.text = lastCall'.message
             /\ lastCall'.request.sessionId = state.session_id
             /\ lastCall'.request.meta.blockchain = NoBlockchain]_vars

\* a confirm_task call whose transaction was sent but whose receipt never
\* came, answered through the plain delegation
C10_Witness ==
    /\ lastCall.op = "confirm_task" /\ lastCall.fault.tx = "wait"
    /\ private_key = "k1"
    /\ lastCall.request.sent /\ lastCall.request.text = "m2"
    /\ lastCall.request.meta.blockchain = NoBlockchain
    /\ ~lastCall.raised /\ lastCall.escalate
    /\ chainTxs # EmptyMap

\* a send_task or confirm_task call that forwarded its request and got a
\* task back from the remote agent
Delegated(call) ==
    /\ call.op \in {"send_task", "confirm_task"}
    /\ call.request.sent
    /\ ~call.reply.raised

\* C11: after a delegation that receives a task, session_active is false
\* exactly when the task's state is completed, canceled, failed or unknown;
\* for input-required, submitted and working the session stays active, and
\* input-required (and only it) sets escalate and skip_summarization.
C11_SessionActiveFollowsState ==
    [][Delegated(lastCall')
          => /\ "session_active" \in state'.keys
             /\ ~state'.session_active
                   <=> lastCall'.reply.state
                          \in {"completed", "canceled", "failed", "unknown"}
             /\ lastCall'.reply.state \in {"input-required", "submitted", "working"}
                   => state'.session_active
             /\ lastCall'.reply.state = "input-required" => lastCall'.escalate
             /\ lastCall'.escalate => lastCall'.reply.state = "input-required"]_vars

\* a blockchain-anchored delegation answered with input-required: the
\* session stays active and control goes back to the user
C11_Witness ==
    /\ Delegated(lastCall) /\ lastCall.op = "confirm_task"
    /\ lastCall.request.meta.blockchain.kind = "dict"
    /\ lastCall.reply.state = "input-required"
    /\ state.session_active /\ lastCall.escalate

\* a delegation ended the session: the remote agent answered with a
\* terminal state (nothing else sets session_active to false)
SessionEnded(st) ==
    /\ "session_active" \in st.keys /\ ~st.session_active
    /\ "session_id" \in st.keys

\* C12 as stated: once a delegation has set the session inactive, no host
\* operation makes the session with that session_id active again.
C12_AsStated ==
    [][SessionEnded(state)
          => ~(state'.session_active /\ state'.session_id = state.session_id)]_vars

\* C13: a delegation to a known agent that got a task back raises exactly
\* when the task's state is canceled or failed, and when it raises
\* session_active is already false; the one request of the call is the only
\* one forwarded.
C13_RaisesOnCanceledOrFailed ==
    [][Delegated(lastCall')
          => /\ lastCall'.raised
                   <=> lastCall'.reply.state \in {"canceled", "failed"}
             /\ lastCall'.raised
                   => /\ "session_active" \in state'.keys
                      /\ ~state'.session_active
                      /\ lastCall'.response = <<>>]_vars

\* a plain delegation whose task came back failed while the session was
\* active
C13_Witness ==
    /\ Delegated(lastCall) /\ lastCall.op = "send_task"
    /\ lastCall.reply.state = "failed" /\ lastCall.raised
    /\ ~state.session_active

Forwarded == lastCall.op \in {"send_task", "confirm_task"} /\ lastCall.request.sent

\* C14 as stated: every request send_task or confirm_task forwards carries
\* auth metadata with the host's own address and the host's signature over
\* that address followed by the request's session id.
C14_AsStated ==
    Forwarded =>
        /\ lastCall.request.meta.auth.kind = "dict"
        /\ lastCall.request.meta.auth.address = HostAddress
        /\ lastCall.request.meta.auth.signature
              = Sign("k1", HostAddress \o lastCall.request.sessionId)

\* C14 amended: when the host has a private key its address was derived
\* from, every forwarded request carries auth metadata with the host's own
\* address and the host's signature over that address followed by the
\* request's session id, which the service's signature check accepts; a host
\* without a usable key forwards its requests without auth metadata.
C14_Amended ==
    Forwarded =>
        /\ private_key \in Keys =>
              /\ eth_address = AddressOf(private_key)
              /\ lastCall.request.meta.auth
                    = Auth(eth_address,
                           Sign(private_key,
                                eth_address \o lastCall.request.sessionId))
              /\ ValidateSignature(TRUE, lastCall.request.sessionId,
                                   lastCall.request.meta).ok
        /\ private_key \notin Keys => lastCall.request.meta.auth = NoAuth

\* a signed request forwarded on the blockchain path of confirm_task
C14_Witness ==
    /\ Forwarded /\ lastCall.op = "confirm_task"
    /\ lastCall.request.meta.blockchain.kind = "dict"
    /\ lastCall.request.meta.auth.kind = "dict"
    /\ lastCall.request.sessionId = <<"a", "-", "1">>

\* the position of the first step called name in a call's steps, 0 if none
StepAt(call, name) ==
    IF \E i \in DOMAIN call.steps : call.steps[i].name = name
        THEN CHOOSE i \in DOMAIN call.steps :
                /\ call.steps[i].name = name
                /\ \A j \in 1..(i - 1) : call.steps[j].name # name
    ELSE 0

\* the receipt of the call's transaction was obtained
ReceiptObtained(call) ==
    \E i \in DOMAIN call.steps : call.steps[i] = Waited(TRUE)

\* C15: a confirm_task call on its blockchain path sends the confirmTask
\* transaction and obtains its receipt before it contacts the remote agent;
\* the tx_hash in the request's blockchain metadata and the
\* transaction_hash of the returned blockchain_confirmation are the hash of
\* that transaction, which this call put on the chain for the session's
\* task id; without the receipt no request names a transaction.
C15_TransactionBeforeRequest ==
    [][lastCall'.op = "confirm_task" /\ lastCall'.request.sent
          => LET call == lastCall'
                 h == call.request.meta.blockchain.tx_hash
             IN  /\ ReceiptObtained(call)
                       <=> call.request.meta.blockchain.kind = "dict"
                 /\ ReceiptObtained(call)
                       => /\ 0 < StepAt(call, "send_raw_transaction")
                          /\ StepAt(call, "send_raw_transaction")
                                < StepAt(call, "wait_for_transaction_receipt")
                          /\ StepAt(call, "wait_for_transaction_receipt")
                                < StepAt(call, "client.send_task")
                          /\ h \notin DOMAIN chainTxs
                          /\ h \in DOMAIN chainTxs'
                          /\ chainTxs'[h].fn = "confirmTask"
                          /\ chainTxs'[h].uuid
                                = TaskUuid(call.request.sessionId).value
                          /\ ~call.raised
                                => /\ call.response # <<>>
                                   /\ call.response[Len(call.response)]
                                         = [kind |-> "blockchain_confirmation",
                                            transaction_hash |-> h,
                                            task_uuid |-> chainTxs'[h].uuid]]_vars

\* a confirm_task call that returned the remote agent's parts followed by
\* the confirmation of its transaction
C15_Witness ==
    /\ lastCall.op = "confirm_task" /\ ~lastCall.raised
    /\ Len(lastCall.steps) = 3 /\ Len(lastCall.response) = 3
    /\ lastCall.response[3].kind = "blockchain_confirmation"
    /\ lastCall.response[3].transaction_hash \in DOMAIN chainTxs
    /\ lastCall.request.meta.blockchain.tx_hash = lastCall.response[3].transaction_hash

\* C16: _validate_blockchain_confirmation passes, and calls the chain node
\* not once, whenever blockchain verification is disabled or the request's
\* metadata is absent or has no 'blockchain' entry.
C16_TrivialPass ==
    BcCalled /\ (~verify_blockchain \/ ~lastCall.meta.present
                    \/ lastCall.meta.blockchain.kind = "absent")
        => /\ lastCall.result.ok
           /\ lastCall.result.rpc = <<>>

\* verification is on and the node is down, yet a request whose metadata
\* has no 'blockchain' entry passes without a call of the node
C16_Witness ==
    /\ BcCalled /\ verify_blockchain /\ ~lastCall.faults.connected
    /\ lastCall.meta = Meta(NoAuth, NoBlockchain)
    /\ lastCall.result.ok /\ lastCall.result.rpc = <<>>

\* C17: with verification enabled _validate_signature never raises; absent
\* metadata, an absent or empty 'auth' entry, a missing address, a missing
\* signature and a signature whose recovery throws each give a failed
\* result that carries an error message.
C17_FailsWithoutRaising ==
    SigCalled /\ verify_signatures =>
        LET meta == lastCall.meta
            res == lastCall.result
            failed(err) == res = Result(FALSE, err)
        IN  /\ ~res.raised
            /\ ~res.ok => res.err # ""
            /\ ~meta.present \/ meta.auth.kind = "absent"
                  => failed("No authentication data found in message metadata")
            /\ meta.present /\ meta.auth.kind = "null" => ~res.ok
            /\ meta.present /\ meta.auth.kind = "dict" =>
                  /\ meta.auth.address = <<>>
                        => failed("Missing Ethereum address in auth data")
                  /\ meta.auth.address # <<>> /\ meta.auth.signature = NoSig
                        => failed("Missing signature in auth data")
                  /\ meta.auth.address # <<>> /\ meta.auth.signature = BadSig
                        => failed("Error recovering address from signature")

\* a request whose signature makes the recovery throw gets a failed result
C17_Witness ==
    /\ SigCalled /\ verify_signatures
    /\ lastCall.meta.present /\ lastCall.meta.auth.kind = "dict"
    /\ lastCall.meta.auth.address = HostAddress
    /\ lastCall.meta.auth.signature = BadSig
    /\ lastCall.result = Result(FALSE, "Error recovering address from signature")

(***************************************************************************)
(* SpecUuid: the three derivations of the on-chain task id, each called    *)
(* any number of times on one session id.                                  *)
(***************************************************************************)
NotDerived == [raised |-> FALSE, value |-> -1]

InitUuid ==
    /\ InitCommon
    /\ verify_signatures = TRUE
    /\ verify_blockchain = TRUE
    /\ lastCall \in [op : {"task_uuid"}, sessionId : SessionStrings,
                     verifier : {NotDerived}, host : {NotDerived},
                     completion : {NotDerived}]

\* task_manager.py:229-231
DeriveInVerifier ==
    /\ lastCall' = [lastCall EXCEPT !.verifier = TaskUuid(lastCall.sessionId)]
    /\ UNCHANGED <<cfgVars, chainVars, storeVars, svcVars, orderVars, hostVars>>

\* host_agent.py:292-293
DeriveInHost ==
    /\ lastCall' = [lastCall EXCEPT !.host = HostTaskUuid(lastCall.sessionId)]
    /\ UNCHANGED <<cfgVars, chainVars, storeVars, svcVars, orderVars, hostVars>>

\* agent.py:335-336
DeriveInCompletion ==
    /\ lastCall' = [lastCall EXCEPT
                       !.completion = CompleteTaskUuid(lastCall.sessionId)]
    /\ UNCHANGED <<cfgVars, chainVars, storeVars, svcVars, orderVars, hostVars>>

NextUuid ==
    \/ DeriveInVerifier
    \/ DeriveInHost
    \/ DeriveInCompletion

SpecUuid == InitUuid /\ [][NextUuid]_vars

Derived == {lastCall.verifier, lastCall.host, lastCall.completion} \ {NotDerived}

\* the derivations made so far gave one result, an id within the width of
\* the contract's uint256 (or all of them raised)
C18_Agree ==
    /\ Cardinality(Derived) <= 1
    /\ \A d \in Derived : ~d.raised => d.value \in 0..(UuidModulus - 1)

\* a derivation made again gives what it gave before
C18_Repeatable ==
    /\ lastCall.verifier # NotDerived => lastCall'.verifier = lastCall.verifier
    /\ lastCall.host # NotDerived => lastCall'.host = lastCall.host
    /\ lastCall.completion # NotDerived
          => lastCall'.completion = lastCall.completion

\* C18: the on-chain task id is a function of the session id alone: each
\* derivation gives the same id whenever it is repeated, the derivations of
\* the host's confirm_task, of the service's confirmation verifier and of
\* the service's completeTask step give the same id for one session id, and
\* the id lies in 0 .. 2^width - 1.
C18_TaskIdIsFunctionOfSession == []C18_Agree /\ [][C18_Repeatable]_vars

\* all three derivations made for a session id whose number exceeds the
\* width, so that the reduction took place
C18_Witness ==
    /\ lastCall.op = "task_uuid" /\ lastCall.sessionId = <<"a", "a">>
    /\ lastCall.host = lastCall.verifier /\ lastCall.completion = lastCall.host
    /\ ~lastCall.host.raised
    /\ lastCall.host.value = 170 % UuidModulus /\ lastCall.host.value # 170

(***************************************************************************)
(* SpecUpdates: concurrent calls of _update_store, each taken through its  *)
(* statements (task_manager.py:459-475): enter the lock, look the task up, *)
(* overwrite the status, extend the artifacts, leave the lock.  req holds  *)
(* each caller's position and arguments, lastCall the order in which the   *)
(* callers entered the lock.                                               *)
(***************************************************************************)
Updaters == {"u1", "u2", "u3"}

\* the artifacts a caller passes: None, or two artifacts of its own
UpdaterArtifacts(u) == {<<>>, <<<<u, "text">>, <<u, "data">>>>}

UpdateStatuses == {"working", "completed"}

IdleUpdater ==
    [pc |-> "idle", id |-> "-", status |-> "-", artifacts |-> <<>>,
     raised |-> FALSE]

\* the store the callers start from: two tasks; t3 is in no store
StoreOfTwo ==
    UpsertTask(UpsertTask(EmptyMap, "t1", <<"1">>), "t2", <<"1">>)

\* a lock that lets every caller in
LockIgnored(l) == TRUE

\* asyncio.Lock: a caller enters when no caller holds the lock
LockFree(l) == l = "free"

\* async with self.lock (task_manager.py:462)
AcquireLock(u) ==
    /\ req[u].pc = "idle"
    /\ LockFree(lock)
    /\ \E id \in TaskIds, st \in UpdateStatuses, arts \in UpdaterArtifacts(u) :
          req' = [req EXCEPT ![u] = [pc |-> "lookup", id |-> id, status |-> st,
                                     artifacts |-> arts, raised |-> FALSE]]
    /\ lock' = u
    /\ lastCall' = [lastCall EXCEPT !.order = Append(@, u)]
    /\ UNCHANGED <<cfgVars, chainVars, tasks, current_session_id, orderVars,
                   hostVars>>

\* task = self.tasks[task_id]; the KeyError becomes ValueError and the
\* lock is left (task_manager.py:463-467)
LookupTask(u) ==
    /\ req[u].pc = "lookup"
    /\ IF req[u].id \in DOMAIN tasks
          THEN /\ req' = [req EXCEPT ![u].pc = "status"]
               /\ UNCHANGED lock
          ELSE /\ req' = [req EXCEPT ![u].pc = "done", ![u].raised = TRUE]
               /\ lock' = IF lock = u THEN "free" ELSE lock
    /\ UNCHANGED <<cfgVars, chainVars, tasks, current_session_id, orderVars,
                   hostVars, lastCall>>

\* task.status = status (task_manager.py:468)
WriteStatus(u) ==
    /\ req[u].pc = "status"
    /\ tasks' = [tasks EXCEPT ![req[u].id].state = req[u].status]
    /\ req' = [req EXCEPT ![u].pc = "artifacts"]
    /\ UNCHANGED <<cfgVars, chainVars, lock, current_session_id, orderVars,
                   hostVars, lastCall>>

\* task.artifacts.extend(artifacts), return task, leave the lock
\* (task_manager.py:471-475)
ExtendArtifacts(u) ==
    /\ req[u].pc = "artifacts"
    /\ tasks' = [tasks EXCEPT ![req[u].id].artifacts = @ \o req[u].artifacts]
    /\ req' = [req EXCEPT ![u].pc = "done"]
    /\ lock' = IF lock = u THEN "free" ELSE lock
    /\ UNCHANGED <<cfgVars, chainVars, current_session_id, orderVars, hostVars,
                   lastCall>>

InitUpdates ==
    /\ verify_signatures = TRUE
    /\ verify_blockchain = TRUE
    /\ agent_address = <<>>
    /\ env_agent_address = <<>>
    /\ chainTasks = EmptyMap
    /\ chainTxs = EmptyMap
    /\ tasks = StoreOfTwo
    /\ lock = "free"
    /\ req = [u \in Updaters |-> IdleUpdater]
    /\ current_session_id = <<>>
    /\ NoOrders
    /\ NoHost
    /\ lastCall = [op |-> "update_store", order |-> <<>>]

NextUpdates ==
    \E u \in Updaters :
        \/ AcquireLock(u)
        \/ LookupTask(u)
        \/ WriteStatus(u)
        \/ ExtendArtifacts(u)

SpecUpdates == InitUpdates /\ [][NextUpdates]_vars

\* the store after the updates of the callers in order, one whole update
\* after the other
RECURSIVE Replay(_, _)
Replay(ts, order) ==
    IF order = <<>> THEN ts
    ELSE LET u == Head(order)
         IN  Replay(UpdateStore(ts, req[u].id, req[u].status,
                                req[u].artifacts).tasks,
                    Tail(order))

InUpdate == {u \in Updaters : req[u].pc \in {"lookup", "status", "artifacts"}}

\* the callers that updated task id, in the order they entered the lock
UpdatersOf(id) ==
    SelectSeq(lastCall.order, LAMBDA u : req[u].id = id)

RECURSIVE Blocks(_)
Blocks(us) ==
    IF us = <<>> THEN <<>> ELSE req[Head(us)].artifacts \o Blocks(Tail(us))

C19_Serial ==
    /\ Cardinality(InUpdate) <= 1
    /\ InUpdate # {} => InUpdate = {lock}
    /\ lock = "free" =>
          /\ tasks = Replay(StoreOfTwo, lastCall.order)
          /\ \A id \in DOMAIN tasks :
                LET us == UpdatersOf(id)
                IN  /\ tasks[id].artifacts = Blocks(us)
                    /\ us # <<>> => tasks[id].state = req[us[Len(us)]].status

\* while a caller is inside its update, only that caller's steps change the
\* store
C19_NoInterference ==
    lock # "free" /\ tasks' # tasks => req'[lock] # req[lock]

\* C19: every _update_store call is atomic with respect to every other:
\* between a call's lookup and its writes no other update, of the same or
\* another task, takes effect; after any interleaving the store is what the
\* calls give when run one after the other in the order they entered, so a
\* task's status is that of the last update and its artifacts are the
\* updates' artifacts as contiguous blocks in that order.
C19_UpdatesAreAtomic == []C19_Serial /\ [][C19_NoInterference]_vars

\* three callers updated one task with two artifacts each while none was
\* left inside its update
C19_Witness ==
    /\ lastCall.op = "update_store" /\ Len(lastCall.order) = 3
    /\ \A u \in Updaters : req[u].pc = "done" /\ req[u].id = "t1"
    /\ Len(tasks["t1"].artifacts) = 6
    /\ lastCall.order = <<"u2", "u3", "u1">>

IsPrefix(x, y) == Len(x) <= Len(y) /\ \A i \in DOMAIN x : x[i] = y[i]

\* C20: no step of the store removes a task, and every step leaves each
\* task's earlier artifacts where they were, in their order, with the new
\* ones after them.
C20_NeverDeletedArtifactsGrow ==
    [][/\ DOMAIN tasks \subseteq DOMAIN tasks'
       /\ \A id \in DOMAIN tasks :
             IsPrefix(tasks[id].artifacts, tasks'[id].artifacts)]_vars

\* two tasks in the store, one of them updated twice: its second artifact
\* follows its first
C20_Witness ==
    /\ lastCall.op = "update_store" /\ ~lastCall.raised
    /\ DOMAIN tasks = {"t1", "t2"}
    /\ tasks[lastCall.id].artifacts = <<"text", "data">>
    /\ tasks[lastCall.id].state = "completed"

(***************************************************************************)
(* The events of a stream (task_manager.py:308-369).                       *)
(***************************************************************************)
\* the step appends one event to the stream of r
Emits(r) ==
    /\ req[r].kind = "subscribe" /\ req'[r].kind = "subscribe"
    /\ Len(req'[r].out) = Len(req[r].out) + 1
Emitted(r) == req'[r].out[Len(req'[r].out)]
\* the non-final status events of out that another one follows
Progress(out) ==
    {i \in DOMAIN out :
        /\ out[i].type = "status" /\ ~out[i].final
        /\ \E j \in DOMAIN out : j > i /\ out[j].type = "status" /\ ~out[j].final}

\* every status event before the completing one is (working, final=false);
\* an artifact event follows a status event (final=false) that is not a
\* progress update, and the final=true event follows the artifact event and
\* repeats the state of that status event
C21_Order ==
    \A r \in Streams :
        LET out == req[r].out IN
        /\ \A i \in Progress(out) : out[i] = [type |-> "status", state |-> "working", final |-> FALSE]
        /\ \A i \in DOMAIN out :
              /\ out[i].type = "artifact" =>
                    /\ i > 1
                    /\ out[i - 1].type = "status" /\ ~out[i - 1].final
                    /\ out[i - 1].state # "working"
              /\ out[i].final =>
                    /\ i > 2
                    /\ out[i].type = "status"
                    /\ out[i - 1].type = "artifact"
                    /\ out[i].state = out[i - 1 - 1].state
        /\ req[r].pc = "emit_artifact" =>
              out[Len(out)].type = "status" /\ out[Len(out)].state # "working"
        /\ req[r].pc = "emit_final" => out[Len(out)].type = "artifact"

\* a status event (final=false) leaves with the state the store holds for
\* its task at that moment
C21_StoredBeforeEmitted ==
    \A r \in Connections :
        Emits(r) /\ Emitted(r).type = "status" /\ ~Emitted(r).final
            => /\ req[r].id \in DOMAIN tasks'
               /\ tasks'[req[r].id].state = Emitted(r).state

\* C21 as stated: the final=true event carries the state the store holds
\* for the task when the event leaves, and that state is a terminal one.
C21_AsStated ==
    [][\A r \in Connections :
          Emits(r) /\ Emitted(r).final
              => /\ Emitted(r).state = tasks'[req[r].id].state
                 /\ Emitted(r).state \in Terminal]_vars

\* C21 amended: every status event before the completing item is (working,
\* final=false); the store holds a status before the final=false event
\* carrying it leaves; the completing item gives, in this order, a status
\* event (final=false), the artifact event and the final=true event. The
\* final=true event repeats the state of that item, completed or
\* input-required (a form), which is the state the item's update wrote: the
\* store may hold another state by then when a second request for the same
\* task id has updated it in between.
C21_Amended ==
    /\ []C21_Order
    /\ [][C21_StoredBeforeEmitted]_vars
    /\ [][\A r \in Connections :
             Emits(r) /\ Emitted(r).final
                 => Emitted(r).state \in {"completed", "input-required"}]_vars

\* a stream that gave a progress update and then a form: its final=true
\* event says input-required
C21_Witness ==
    \E r \in Streams :
        /\ req[r].pc = "done" /\ Len(req[r].out) = 4
        /\ req[r].out[1] = StatusEvent("working", FALSE)
        /\ req[r].out[4] = StatusEvent("input-required", TRUE)

(***************************************************************************)
(* Status transitions of the store, under SpecStore.                       *)
(***************************************************************************)
\* for every task of the store and every status, _update_store accepts the
\* status and the task then holds it, the other tasks being left alone
C22_EveryStatusAccepted ==
    \A id \in DOMAIN tasks, st \in TaskStates :
        LET u == UpdateStore(tasks, id, st, <<>>)
        IN  /\ ~u.raised
            /\ u.tasks[id].state = st
            /\ \A other \in DOMAIN tasks \ {id} : u.tasks[other] = tasks[other]

\* C22: transitions are not validated. An update of an existing task is
\* accepted whatever the status the task holds and whatever the new status
\* (so each ordered pair of states is a transition the store makes), and
\* the task holds the status of the latest update.
C22_TransitionsNotValidated ==
    /\ []C22_EveryStatusAccepted
    /\ [][lastCall'.op = "update_store" /\ lastCall'.id \in DOMAIN tasks
             => ~lastCall'.raised /\ DOMAIN tasks' = DOMAIN tasks]_vars

\* a task that was updated at least twice (each update adds one artifact at
\* most) and is working again, next to a completed one
C22_Witness ==
    /\ lastCall.op = "update_store" /\ ~lastCall.raised
    /\ lastCall.id = "t1"
    /\ DOMAIN tasks = {"t1", "t2"}
    /\ tasks["t1"].state = "working" /\ Len(tasks["t1"].artifacts) = 2
    /\ tasks["t2"].state = "completed"

(***************************************************************************)
(* The blockchain step of place_order, under SpecOrders.                   *)
(***************************************************************************)
\* C23 as stated: when place_order is given an issued order id and
\* _complete_task_on_blockchain raises or returns None, place_order still
\* returns a response with status 'confirmed'.
C23_AsStated ==
    Placed /\ lastCall.known /\ lastCall.completion \in {"none", "raise"}
        => /\ ~lastCall.result.raised
           /\ lastCall.result.status = "confirmed"

(***************************************************************************)
(* confirm_task without a private key, under SpecHost.                     *)
(***************************************************************************)
\* C24: a call of confirm_task by a host without private key, the chain
\* being reachable, raises; it leaves the chain's transactions as they were
\* and makes none of the transaction calls, and no request goes to the
\* remote agent.
C24_NoKeyRaises ==
    [][lastCall'.op = "confirm_task" /\ private_key = "none"
          /\ lastCall'.fault.connect = "ok"
          => /\ lastCall'.raised
             /\ chainTxs' = chainTxs
             /\ ~lastCall'.request.sent
             /\ lastCall'.steps = <<>>]_vars

\* confirm_task was called for the registered agent within a session by a
\* host without key, the chain reachable and the remote agent ready to
\* answer: it raised
C24_Witness ==
    /\ lastCall.op = "confirm_task" /\ private_key = "none"
    /\ lastCall.fault.connect = "ok"
    /\ lastCall.agent_name \in RemoteAgents
    /\ "session_id" \in state.keys
    /\ ~lastCall.reply.raised
    /\ lastCall.raised

(***************************************************************************)
(* SpecAgent: runs of the food ordering agent for several requests at      *)
(* once.  A run started by stream is suspended while the agent loop waits  *)
(* (run_async), so the runs of different requests interleave between the   *)
(* tool calls; _current_session_id is one field of the one agent instance  *)
(* (agent.py:24, 413-427).                                                 *)
(***************************************************************************)
AgentCall(op, r, sid, order_id, known, completion, result) ==
    [op |-> op, run |-> r, session |-> sid, order_id |-> order_id,
     known |-> known, completion |-> completion, result |-> result]

\* AgentWithTaskManager.stream up to its first suspension
\* (task_manager.py:75-97): the session id of the request is kept in the
\* agent, then the agent loop starts
AgentStream(r) ==
    /\ req[r].pc = "idle"
    /\ Accepted(r, req)
    /\ \E sid \in OrderSessions :
        /\ req' = [req EXCEPT ![r] = [IdleRun EXCEPT !.kind = "subscribe",
                                                     !.pc = "loop",
                                                     !.sessionId = sid]]
        /\ current_session_id' = sid
        /\ lastCall' = AgentCall("stream", r, sid, "-", FALSE, "-",
                                 OrderResponse(FALSE, "-", "-", 0))
    /\ UNCHANGED <<cfgVars, chainVars, storeVars, orderVars, hostVars>>

\* the agent loop of run r calls the tool create_order_form
\* (agent.py:110-152)
ToolCreateOrderForm(r) ==
    /\ req[r].pc = "loop"
    /\ \E order_id \in FormIds :
        /\ order_ids' = order_ids \cup {order_id}
        /\ lastCall' = AgentCall("create_order_form", r, req[r].sessionId,
                                 order_id, order_id \in order_ids, "-",
                                 OrderResponse(FALSE, "form", "-", 0))
    /\ UNCHANGED <<cfgVars, chainVars, storeVars, svcVars, agent_private_key,
                   hostVars>>

\* the agent loop of run r calls the tool place_order (agent.py:265-310),
\* whose blockchain step reads the session id kept in the agent
\* (agent.py:323-336)
ToolPlaceOrder(r) ==
    /\ req[r].pc = "loop"
    /\ Cardinality(DOMAIN chainTxs) < MaxTxs
    /\ \E order_id \in OrderIdArgs, f \in TxFaults :
        IF order_id \notin order_ids
            THEN /\ lastCall' = AgentCall("place_order", r, req[r].sessionId,
                                     order_id, FALSE, "-",
                                     OrderResponse(FALSE,
                                         "Error: Invalid order_id.", "-", 0))
                 /\ UNCHANGED chainTxs
            ELSE LET c == CompleteTaskOnBlockchain(current_session_id,
                              agent_private_key, chainTxs, f)
                 IN  /\ lastCall' = AgentCall("place_order", r, req[r].sessionId,
                                         order_id, TRUE, c.kind, TrackingUrl(c))
                     /\ chainTxs' = c.chainTxs
    /\ UNCHANGED <<cfgVars, chainTasks, storeVars, svcVars, orderVars, hostVars>>

\* the agent loop of run r gives its final response (task_manager.py:98-125)
AgentFinal(r) ==
    /\ req[r].pc = "loop"
    /\ req' = [req EXCEPT ![r].pc = "done"]
    /\ lastCall' = AgentCall("final", r, req[r].sessionId, "-", FALSE, "-",
                             OrderResponse(FALSE, "-", "-", 0))
    /\ UNCHANGED <<cfgVars, chainVars, storeVars, current_session_id,
                   orderVars, hostVars>>

InitAgent ==
    /\ verify_signatures = TRUE
    /\ verify_blockchain = TRUE
    /\ agent_address = <<>>
    /\ env_agent_address = <<>>
    /\ chainTasks = EmptyMap
    /\ chainTxs = EmptyMap
    /\ tasks = EmptyMap
    /\ lock = "free"
    /\ req = [r \in Connections |-> IdleRun]
    /\ current_session_id = <<>>
    /\ order_ids = {}
    /\ agent_private_key \in {"none", "k2"}
    /\ NoHost
    /\ lastCall = AgentCall("none", "-", <<>>, "-", FALSE, "-",
                            OrderResponse(FALSE, "-", "-", 0))

NextAgent ==
    \E r \in Connections :
        \/ AgentStream(r)
        \/ ToolCreateOrderForm(r)
        \/ ToolPlaceOrder(r)
        \/ AgentFinal(r)

SpecAgent == InitAgent /\ [][NextAgent]_vars

\* C25 as stated: a place_order of the run of a request of session S that
\* broadcasts a transaction broadcasts completeTask for the task id derived
\* from S.
C25_AsStated ==
    [][lastCall'.op = "place_order" /\ chainTxs' # chainTxs
          => LET tx == chainTxs'[NewTxHash(chainTxs)]
                 uuid == TaskUuid(lastCall'.session)
             IN  /\ tx.fn = "completeTask"
                 /\ ~uuid.raised
                 /\ tx.uuid = uuid.value]_vars

(***************************************************************************)
(* Transactions of a confirm_task call that falls back, under SpecHost.    *)
(***************************************************************************)
\* C26 as stated: a confirm_task call that forwards the plain send_task
\* request (no blockchain metadata) has put no transaction on the chain,
\* and no confirm_task call puts more than one there.
C26_AsStated ==
    [][lastCall'.op = "confirm_task"
          => /\ lastCall'.request.sent
                  /\ lastCall'.request.meta.blockchain = NoBlockchain
                    => chainTxs' = chainTxs
             /\ Cardinality(DOMAIN chainTxs')
                    <= Cardinality(DOMAIN chainTxs) + 1]_vars

(***************************************************************************)
(* The transaction a request cites, under SpecChain.                       *)
(***************************************************************************)
\* the check ran to its end: the chain answered, the record of the task id
\* names this service, the receipt of the cited transaction says success
BcCompleted ==
    /\ BcNamesTx /\ lastCall.faults.connected
    /\ ~lastCall.faults.tasksRaise
    /\ BcRecordMatches
    /\ BcReceipt = "success"

\* C27 as stated: a request accepted after the whole on-chain check cites a
\* confirmTask transaction for the task id derived from its session id.
C27_AsStated ==
    BcCompleted /\ lastCall.result.ok
        => LET tx == chainTxs[lastCall.meta.blockchain.tx_hash]
           IN  /\ tx.fn = "confirmTask"
               /\ tx.uuid = TaskUuid(lastCall.sessionId).value

(***************************************************************************)
(* SpecConfirm: a confirm_task call of the host from end to end.  The call *)
(* is suspended at 'await client.send_task' (host_agent.py:377) while the  *)
(* service handles the request; req holds the call in flight.  The         *)
(* contract is not part of the repository: a mined confirmTask(uuid,       *)
(* remoteAgent) is taken to record the sender as task agent and            *)
(* remoteAgent as service agent of uuid.                                   *)
(***************************************************************************)
NoChecks == [pass |-> FALSE, steps |-> <<>>, addr |-> <<>>]

Flight(phase, request, agent_name, message, f, pre, remote, checks, err, reply) ==
    [phase |-> phase, request |-> request, agent_name |-> agent_name,
     message |-> message, fault |-> f, pre |-> pre, remote |-> remote,
     checks |-> checks, err |-> err, reply |-> reply]

NoFlight ==
    Flight("idle", NoRequest, "-", "-", NoFault, EmptyMap, <<>>, NoChecks, "",
           NoReply)

\* the remote agent's address the host takes from the agent card or from
\* REMOTE_AGENT_ETH_ADDRESS (host_agent.py:262-272): the service's own
\* address, or another one
RemoteAddresses == {ServiceAddress, StrayAddress}

\* the contract's confirmTask(uuid, remoteAgent) sent by sender
ContractConfirmTask(ct, uuid, sender, remoteAgent) ==
    [u \in DOMAIN ct \cup {uuid} |->
        IF u = uuid THEN ChainTask(sender, remoteAgent) ELSE ct[u]]

\* the answer the host's client gets for the service's task
TaskReply(s) == [raised |-> FALSE, state |-> s, message |-> TRUE, artifacts |-> 1]

\* confirm_task up to 'await client.send_task' (host_agent.py:229-377): the
\* transaction, then the request; a call that raises before it sends
\* anything ends here
ConfirmTaskSends ==
    /\ req.phase = "idle"
    /\ Cardinality(DOMAIN chainTxs) < MaxTxs
    /\ \E args \in ToolArgs, f \in HostFaults, remote \in RemoteAddresses :
        LET agent_name == args[1]
            message == args[2]
            e == ConfirmTaskEffect(state, private_key, eth_address, chainTxs,
                                   agent_name, message, TaskReply("working"), f)
        IN  IF ~e.request.sent
                THEN /\ state' = e.state
                     /\ lastCall' = Call("confirm_task", agent_name, message,
                                         NoReply, f, e)
                     /\ UNCHANGED <<chainVars, req>>
            ELSE /\ chainTxs' = e.chainTxs
                 /\ chainTasks' =
                        IF e.chainTxs = chainTxs THEN chainTasks
                        ELSE ContractConfirmTask(chainTasks,
                                 e.chainTxs[NewTxHash(chainTxs)].uuid,
                                 AddressOf(private_key), remote)
                 /\ req' = Flight("sent", e.request, agent_name, message, f,
                                  chainTxs, remote, NoChecks, "", NoReply)
                 /\ UNCHANGED <<state, lastCall>>
    /\ UNCHANGED <<cfgVars, storeVars, current_session_id, orderVars,
                   private_key, eth_address>>

\* on_send_task of the service for the request in flight
\* (task_manager.py:394-418, 477-498)
ServiceOnSendTask ==
    /\ req.phase = "sent"
    /\ req.request.id \in DOMAIN tasks
          => Len(tasks[req.request.id].artifacts) < MaxArtifacts
    /\ \E f \in SvcFaults, outcome \in InvokeOutcomes :
        LET rq == req.request
            p == [id |-> rq.id, sessionId |-> rq.sessionId, meta |-> rq.meta,
                  modesOK |-> TRUE, textPart |-> TRUE]
            c == HandlerChecks(p, f, verify_signatures, verify_blockchain,
                               agent_address, env_agent_address,
                               chainTasks, chainTxs)
            sig == ValidateSignature(verify_signatures, p.sessionId, p.meta)
            bc == ValidateBlockchain(verify_blockchain, p.sessionId, p.meta,
                                     agent_address, env_agent_address,
                                     chainTasks, chainTxs, f)
            upserted == UpsertTask(tasks, p.id, p.sessionId)
            task_state == IF outcome = "missing_info" THEN "input-required"
                          ELSE "completed"
            upd == UpdateStore(upserted, p.id, task_state, <<"text">>)
        IN  /\ agent_address' = c.addr
            /\ IF ~c.pass
                  THEN /\ req' = [req EXCEPT !.phase = "answered", !.checks = c,
                                     !.err = IF sig.ok THEN bc.err ELSE sig.err,
                                     !.reply = NoReply]
                       /\ UNCHANGED <<tasks, current_session_id>>
               ELSE IF outcome = "raise"
                  THEN /\ req' = [req EXCEPT !.phase = "answered", !.checks = c,
                                             !.reply = NoReply]
                       /\ tasks' = upserted
                       /\ current_session_id' = p.sessionId
               ELSE /\ req' = [req EXCEPT !.phase = "answered", !.checks = c,
                                          !.reply = TaskReply(task_state)]
                    /\ tasks' = upd.tasks
                    /\ current_session_id' = p.sessionId
    /\ UNCHANGED <<verify_signatures, verify_blockchain, env_agent_address,
                   chainVars, lock, orderVars, hostVars, lastCall>>

\* confirm_task from the answer of client.send_task to its end
\* (host_agent.py:377-420)
ConfirmTaskReturns ==
    /\ req.phase = "answered"
    /\ LET e == ConfirmTaskEffect(state, private_key, eth_address, req.pre,
                                  req.agent_name, req.message, req.reply,
                                  req.fault)
       IN  /\ state' = e.state
           /\ lastCall' = Call("confirm_task", req.agent_name, req.message,
                               req.reply, req.fault, e)
    /\ req' = NoFlight
    /\ UNCHANGED <<cfgVars, chainVars, storeVars, current_session_id,
                   orderVars, private_key, eth_address>>

\* the model turn of the host between two tool calls
HostTurn == req.phase = "idle" /\ BeforeModelCallback

InitConfirm ==
    /\ verify_signatures = TRUE
    /\ verify_blockchain = TRUE
    /\ agent_address = <<>>
    /\ env_agent_address = Lower(ServiceAddress)
    /\ chainTasks = EmptyMap
    /\ chainTxs = EmptyMap
    /\ tasks = EmptyMap
    /\ lock = "free"
    /\ req = NoFlight
    /\ current_session_id = <<>>
    /\ NoOrders
    /\ private_key \in HostKeys
    /\ eth_address = EthAddress(private_key)
    /\ state = NewState
    /\ lastCall = NoCall

NextConfirm ==
    \/ HostTurn
    \/ ConfirmTaskSends
    \/ ServiceOnSendTask
    \/ ConfirmTaskReturns

SpecConfirm == InitConfirm /\ [][NextConfirm]_vars

\* the service answered a request that confirm_task built on its blockchain
\* path
ConfirmedRequestAnswered ==
    /\ req.phase = "answered"
    /\ req.request.meta.blockchain # NoBlockchain

\* C28 as stated: a request built by confirm_task's blockchain path passes
\* the service's signature check and its blockchain check when the remote
\* agent address registered on chain is the service's configured address,
\* and is rejected with the address mismatch error when it is another one.
C28_AsStated ==
    ConfirmedRequestAnswered =>
        IF Lower(req.remote) = Lower(env_agent_address)
            THEN /\ req.checks.pass
                 /\ req.checks.steps = <<[name |-> "validate_request", ok |-> TRUE],
                                         [name |-> "validate_signature", ok |-> TRUE],
                                         [name |-> "validate_blockchain", ok |-> TRUE]>>
        ELSE /\ ~req.checks.pass
             /\ req.err = "Task service agent address mismatch"

(***************************************************************************)
(* A failing agent loop, under SpecService.                                *)
(***************************************************************************)
\* the step in which on_send_task of r ends because agent.invoke raised
InvokeFails(r) ==
    /\ req[r].pc = "idle"
    /\ req'[r].kind = "send" /\ req'[r].agent = "raise"

\* the step in which the stream of r ends because the agent loop raised
StreamFails(r) ==
    /\ req[r].pc = "loop"
    /\ req'[r].pc = "done" /\ req'[r].agent = "raise"

Errors(out) == {i \in DOMAIN out : out[i].type = "error"}

\* C29: when the agent loop raises for a request that passed the checks,
\* the task of the request is in the store with the status and artifacts it
\* had before the failure (submitted and none for a task the request
\* created), on_send_task raises to its caller, and the stream gets one
\* error response, its only one and its last event.
C29_FailureLeavesTask ==
    [][\A r \in Connections :
          /\ InvokeFails(r) =>
                LET id == req'[r].id IN
                /\ req'[r].out = <<[type |-> "raised", state |-> "-", final |-> FALSE]>>
                /\ id \in DOMAIN tasks'
                /\ tasks'[id].state = IF id \in DOMAIN tasks THEN tasks[id].state
                                      ELSE "submitted"
                /\ tasks'[id].artifacts = IF id \in DOMAIN tasks
                                              THEN tasks[id].artifacts
                                          ELSE <<>>
                /\ \A other \in DOMAIN tasks \ {id} : tasks'[other] = tasks[other]
          /\ StreamFails(r) =>
                /\ req[r].id \in DOMAIN tasks
                /\ tasks' = tasks
                /\ req'[r].out = Append(req[r].out, ErrorResponse)
                /\ Errors(req'[r].out) = {Len(req'[r].out)}]_vars

\* a stream whose loop raised after a progress update, its task still
\* working, and a single-shot request for another task whose loop raised,
\* its task still submitted
C29_Witness ==
    \E r, q \in Connections :
        /\ req[r].kind = "subscribe" /\ req[r].pc = "done"
        /\ req[r].agent = "raise" /\ Len(req[r].out) = 2
        /\ req[r].id \in DOMAIN tasks /\ tasks[req[r].id].state = "working"
        /\ req[q].kind = "send" /\ req[q].agent = "raise"
        /\ req[q].id # req[r].id
        /\ req[q].id \in DOMAIN tasks /\ tasks[req[q].id].state = "submitted"

(***************************************************************************)
(* SpecReplay: _validate_signature called for two requests, one after the  *)
(* other, by the same manager.  Init draws the flag and the two requests;  *)
(* the second is any request, with its own task id, text and metadata.     *)
(***************************************************************************)
ReplaySessions == {<<"1">>, <<"1", "1">>}

ReplayAuths ==
    {NoAuth, NullAuth}
        \cup {Auth(a, g) :
                a \in {HostAddress, <<>>},
                g \in {NoSig, BadSig, Sign("k2", HostAddress \o <<"1">>)}
                        \cup {Sign("k1", HostAddress \o s) : s \in ReplaySessions}}

ReplayMetas ==
    {NoMeta} \cup {Meta(a, b) : a \in ReplayAuths,
                                b \in {NoBlockchain, Blockchain(1)}}

\* a tasks/send request: task id, session id, text of the message, metadata
ReplayRequests(ids, texts) ==
    [id : ids, sessionId : ReplaySessions, text : texts, meta : ReplayMetas]

NotValidated == [done |-> FALSE, result |-> Result(FALSE, "")]

InitReplay ==
    /\ InitCommon
    /\ verify_signatures \in BOOLEAN
    /\ verify_blockchain = TRUE
    /\ lastCall \in [op : {"validate_signature"},
                     first : ReplayRequests({"t1"}, {"m1"}),
                     second : ReplayRequests({"t1", "t2"}, {"m1", "m2"}),
                     one : {NotValidated}, two : {NotValidated}]

\* _validate_signature for the first request
ValidateFirst ==
    /\ lastCall.op = "validate_signature"
    /\ ~lastCall.one.done
    /\ lastCall' = [lastCall EXCEPT !.one =
            [done |-> TRUE,
             result |-> ValidateSignature(verify_signatures,
                            lastCall.first.sessionId, lastCall.first.meta)]]
    /\ UNCHANGED <<orderVars, hostVars,
                   cfgVars, chainVars, storeVars, svcVars>>

\* _validate_signature for the second request, after the first
ValidateSecond ==
    /\ lastCall.op = "validate_signature"
    /\ lastCall.one.done /\ ~lastCall.two.done
    /\ lastCall' = [lastCall EXCEPT !.two =
            [done |-> TRUE,
             result |-> ValidateSignature(verify_signatures,
                            lastCall.second.sessionId, lastCall.second.meta)]]
    /\ UNCHANGED <<orderVars, hostVars,
                   cfgVars, chainVars, storeVars, svcVars>>

NextReplay == ValidateFirst \/ ValidateSecond

SpecReplay == InitReplay /\ [][NextReplay]_vars

\* the two requests agree on claimed address, signature and session id
SameAssertion ==
    /\ lastCall.first.meta.auth.address = lastCall.second.meta.auth.address
    /\ lastCall.first.meta.auth.signature = lastCall.second.meta.auth.signature
    /\ lastCall.first.sessionId = lastCall.second.sessionId

\* C30: two requests that carry the same claimed address, the same
\* signature and the same session id get the same verdict of
\* _validate_signature, whatever their task ids, texts and other metadata;
\* so a request that repeats an accepted assertion in its session is
\* accepted again.
C30_VerdictOfAssertionOnly ==
    lastCall.one.done /\ lastCall.two.done /\ SameAssertion
        => lastCall.one.result.ok = lastCall.two.result.ok

\* an assertion accepted for one request was accepted again for a later
\* request of the session with another task id, another text and
\* blockchain metadata
C30_Witness ==
    /\ verify_signatures
    /\ lastCall.one.done /\ lastCall.two.done /\ SameAssertion
    /\ lastCall.first.meta.blockchain = NoBlockchain
    /\ lastCall.second.meta.blockchain # NoBlockchain
    /\ lastCall.second.id # lastCall.first.id
    /\ lastCall.second.text # lastCall.first.text
    /\ lastCall.one.result.ok /\ lastCall.two.result.ok

====
